---- MODULE Spec2Model ----
(***************************************************************************)
(* Wallet ledger of Daryan97/wallet_system: the HTTP handlers of the       *)
(* wallet API (create wallet, deposit, transfer, get wallet, transaction   *)
(* history) running concurrently against one MySQL store (gorm) and one    *)
(* Redis cache.  Every handler is cut at its accesses to the store or the  *)
(* cache: one action per access, with the local computation that follows   *)
(* it.  A db.Transaction is one action (the store commits it atomically).  *)
(* Amounts are integers, for which float64 arithmetic is exact.            *)
(***************************************************************************)
EXTENDS Integers, Sequences, FiniteSets, TLC

(* ------------------------------ bounds -------------------------------- *)

\* total number of requests the clients send in one behaviour
MaxCalls == 3

\* concurrent request slots (gin serves every request in its own goroutine)
Procs == {"p1", "p2"}

\* users of the users table; registration is outside the ledger core
Users == {1, 2}

\* to_username values the clients send: the names of the users and one
\* name that is not registered
Usernames == {"alice", "bob", "nobody"}

\* amounts the clients send (the invalid ones included)
Amounts == {0 - 60, 0, 60, 100}

\* raw page / page_size query values: "" is an absent parameter
PageParams == {"", "6"}
SizeParams == {"", "1"}

\* raw page_size values around the limits of the page size: absent, not a
\* number, below 1, the limits 1 and 100, and above 100
AllSizeParams == {"", "abc", "-1", "0", "1", "100", "101"}

(* ------------------------- program constants -------------------------- *)

DefaultPage == 1
DefaultPageSize == 20
MaxPageSize == 100
InvalidatedPages == 5

(* ------------------------------ values -------------------------------- *)

\* domain.Wallet; the zero value is what a failed First leaves behind
NoWallet == [ID |-> 0, UserID |-> 0, Balance |-> 0]

\* a *uint that is nil
Nil == 0

NoRequest == [op |-> "none", user |-> 0, to |-> "", amount |-> 0, page |-> "", size |-> ""]

NoLocals == [toUser |-> 0, from |-> NoWallet, to |-> NoWallet, page |-> 0, pageSize |-> 0,
             total |-> 0, rows |-> << >>, users |-> << >>]

NoPage == [transactions |-> << >>, page |-> 0, page_size |-> 0, total |-> 0, total_pages |-> 0]

\* the response of the admin listing of users before it is filled
NoUsersPage == [users |-> << >>, page |-> 0, page_size |-> 0, total |-> 0, total_pages |-> 0]

NoResponse == [status |-> 0, msg |-> "", cached |-> FALSE, wallet |-> NoWallet, hist |-> NoPage,
               users |-> NoUsersPage]

Reply(status, msg) == [NoResponse EXCEPT !.status = status, !.msg = msg]

\* the failures of the handlers, by HTTP status and message
InvalidAmount == Reply(400, "Invalid amount")
InvalidRequest == Reply(400, "Invalid request")
TargetNotFound == Reply(404, "Target user not found")
SelfTransfer == Reply(400, "Cannot transfer to yourself")
SenderNotFound == Reply(404, "Sender wallet not found")
RecipientNotFound == Reply(404, "Recipient wallet not found")
InsufficientFunds == Reply(400, "Insufficient funds")
TransferOK == Reply(200, "Transfer successful")
DepositOK == Reply(200, "Deposit successful")
WalletNotFound == Reply(404, "Wallet not found")
AlreadyExists == Reply(400, "Wallet already exists")
CreateFailed == Reply(500, "Failed to create wallet")
TransferFailed == Reply(500, "Transfer failed")
DepositFailed == Reply(500, "Deposit failed")

VARIABLES
    wallets,   \* table wallets: sequence of rows, the row's index is its ID
    txs,       \* table transactions: sequence of rows, the row's index is its ID
    cache,     \* Redis: key -> cached JSON value, present keys only
    ttl,       \* Redis: key -> remaining time-to-live in milliseconds
    pc,        \* per request slot: where its handler stands
    req,       \* per request slot: the request being served
    loc,       \* per request slot: the handler's local variables
    resp,      \* per request slot: the response written to the client
    calls,     \* number of requests sent so far
    now        \* the clock, in milliseconds

vars == <<wallets, txs, cache, ttl, pc, req, loc, resp, calls, now>>
store == <<wallets, txs>>

(* ------------------------------ the store ----------------------------- *)

\* db.Where("username = ?", name).First(&user): the user's ID, 0 if no row
UserByName(name) ==
    CASE name = "alice" -> 1
      [] name = "bob" -> 2
      [] name = "carol" -> 4
      [] name = "dave" -> 5
      [] OTHER -> 0

WalletRow(ws, id) == [ID |-> id, UserID |-> ws[id].UserID, Balance |-> ws[id].Balance]

\* db.Where("user_id = ?", uid).First(&wallet): the row with the lowest ID,
\* NoWallet (and gorm.ErrRecordNotFound) if there is none
FirstWallet(ws, uid) ==
    LET ids == {i \in DOMAIN ws : ws[i].UserID = uid}
    IN  IF ids = {} THEN NoWallet
        ELSE WalletRow(ws, CHOOSE i \in ids : \A j \in ids : i <= j)

Found(w) == w.ID # 0

\* an update without its WHERE clause: every row gets the delta
UpdateBalanceAll(ws, id, delta) ==
    [i \in DOMAIN ws |-> [ws[i] EXCEPT !.Balance = @ + delta]]

\* an update that sets the column to the amount: Update("balance", delta)
UpdateBalanceAssign(ws, id, delta) ==
    [i \in DOMAIN ws |-> IF i = id THEN [ws[i] EXCEPT !.Balance = delta] ELSE ws[i]]

\* tx.Model(&wallet).Update("balance", gorm.Expr("balance + ?", delta)):
\* UPDATE wallets SET balance = balance + delta WHERE id = wallet.ID
UpdateBalance(ws, id, delta) ==
    [i \in DOMAIN ws |-> IF i = id THEN [ws[i] EXCEPT !.Balance = @ + delta] ELSE ws[i]]

\* a wallets table without the unique index on user_id
CanInsertWalletAlways(ws, uid) == TRUE

\* a wallet that is created with money on it
InsertWalletFunded(ws, uid) == Append(ws, [UserID |-> uid, Balance |-> 100])

\* db.Create(&wallet): the unique index on user_id refuses a second row
CanInsertWallet(ws, uid) == \A i \in DOMAIN ws : ws[i].UserID # uid
InsertWallet(ws, uid) == Append(ws, [UserID |-> uid, Balance |-> 0])

\* a record that is saved over the last row of the table
InsertTxOverLast(ts, from, to, amount, type, at) ==
    IF ts = << >>
      THEN <<[ID |-> 1, FromWalletID |-> from, ToWalletID |-> to,
              Amount |-> amount, Type |-> type, CreatedAt |-> at]>>
      ELSE [ts EXCEPT ![Len(ts)] =
              [ID |-> Len(ts), FromWalletID |-> from, ToWalletID |-> to,
               Amount |-> amount, Type |-> type, CreatedAt |-> at]]

\* a record that names the wallets the wrong way round
InsertTxSwapped(ts, from, to, amount, type, at) ==
    Append(ts, [ID |-> Len(ts) + 1, FromWalletID |-> to, ToWalletID |-> from,
                Amount |-> amount, Type |-> type, CreatedAt |-> at])

\* tx.Create(&t): the row gets the next ID
InsertTx(ts, from, to, amount, type, at) ==
    Append(ts, [ID |-> Len(ts) + 1, FromWalletID |-> from, ToWalletID |-> to,
                Amount |-> amount, Type |-> type, CreatedAt |-> at])

\* a query that filters on nothing
MatchingAll(ts, wid) == DOMAIN ts

\* Where("from_wallet_id = ? OR to_wallet_id = ?", wid, wid)
Matching(ts, wid) == {i \in DOMAIN ts : ts[i].FromWalletID = wid \/ ts[i].ToWalletID = wid}

\* ... .Count(&total)
CountTx(ts, wid) == Cardinality(Matching(ts, wid))

\* the orders of a set of rows that Order("created_at desc") allows: rows
\* with equal created_at come in any order
RECURSIVE Orders(_, _)
Orders(ts, ids) ==
    IF ids = {} THEN {<< >>}
    ELSE UNION {{<<ts[i]>> \o rest : rest \in Orders(ts, ids \ {i})} :
                i \in {k \in ids : \A j \in ids : ts[k].CreatedAt >= ts[j].CreatedAt}}

\* Offset(offset).Limit(limit) of a result list
Slice(rows, offset, limit) ==
    LET lo == offset + 1
        hi == IF offset + limit < Len(rows) THEN offset + limit ELSE Len(rows)
    IN  IF lo > hi THEN << >> ELSE SubSeq(rows, lo, hi)

\* ... .Order("created_at desc").Offset(offset).Limit(limit).Find(&transactions):
\* the result lists the store may return
FindTx(ts, wid, offset, limit) ==
    {Slice(rows, offset, limit) : rows \in Orders(ts, Matching(ts, wid))}

(* ------------------------------ the cache ----------------------------- *)

\* strconv.Atoi on the query values the clients send: <<value, ok>>
Atoi(s) ==
    CASE s = "1" -> <<1, TRUE>>
      [] s = "2" -> <<2, TRUE>>
      [] s = "6" -> <<6, TRUE>>
      [] s = "101" -> <<101, TRUE>>
      [] s = "100" -> <<100, TRUE>>
      [] s = "0" -> <<0, TRUE>>
      [] s = "-1" -> <<0 - 1, TRUE>>
      [] OTHER -> <<0, FALSE>>

WalletKey(uid) == "wallet:user:" \o ToString(uid)

TxKey(uid, page, pageSize) ==
    "txhistory:user:" \o ToString(uid) \o ":page:" \o ToString(page)
        \o ":size:" \o ToString(pageSize)

\* a cache read that never finds the key
CacheHitNever(c, key) == FALSE

\* utils.GetCache: found, and the value unmarshalled into dest
CacheHit(c, key) == key \in DOMAIN c

\* utils.SetCache(ctx, rdb, key, value, ttl)
SetCache(c, key, value) == [k \in DOMAIN c \cup {key} |-> IF k = key THEN value ELSE c[k]]

\* the time-to-live the handlers give every key: 60*time.Second
TTL == 60
TTLMillis == TTL * 1000

\* rdb.Set(ctx, key, data, ttl) and rdb.Del(ctx, key): the remaining
\* time-to-live of the keys of the cache c, where the keys in fresh were
\* just set
Expiries(t, c, fresh) == [k \in DOMAIN c |-> IF k \in fresh THEN TTLMillis ELSE t[k]]

\* a delete that empties the cache
DeleteCacheFlushAll(c, key) == [k \in {} |-> c[k]]

\* a delete that leaves the key in place
DeleteCacheNothing(c, key) == c

\* utils.DeleteCache(ctx, rdb, key)
DeleteCache(c, key) == [k \in DOMAIN c \ {key} |-> c[k]]

\* json.Marshal of a domain.Wallet and json.Unmarshal into a domain.Wallet
MarshalWallet(w) == [kind |-> "wallet", ID |-> w.ID, UserID |-> w.UserID, Balance |-> w.Balance]
UnmarshalWallet(j) == [ID |-> j.ID, UserID |-> j.UserID, Balance |-> j.Balance]

\* json.Marshal of the history response (a gin.H with "cached": false) and
\* json.Unmarshal into the handler's cached struct, which has no such field
MarshalPage(h) ==
    [kind |-> "page", transactions |-> h.transactions, page |-> h.page,
     page_size |-> h.page_size, total |-> h.total, total_pages |-> h.total_pages,
     cached |-> FALSE]
UnmarshalPage(j) ==
    [transactions |-> j.transactions, page |-> j.page, page_size |-> j.page_size,
     total |-> j.total, total_pages |-> j.total_pages]

(* ------------------------------- Init --------------------------------- *)

\* the wallets that exist when the clients start: none, or those that
\* earlier CreateWallet calls of user 2 and then of user 1 have inserted
\* (the ID of a wallet is not the ID of its user), with the zero balance
\* they start with
InitialWallets ==
    {<< >>,
     <<[UserID |-> 2, Balance |-> 0]>>,
     <<[UserID |-> 2, Balance |-> 0], [UserID |-> 1, Balance |-> 0]>>}

Init ==
    /\ wallets \in InitialWallets
    /\ txs = << >>
    /\ cache = [k \in {} |-> NoPage]
    /\ ttl = [k \in {} |-> 0]
    /\ pc = [p \in Procs |-> "idle"]
    /\ req = [p \in Procs |-> NoRequest]
    /\ loc = [p \in Procs |-> NoLocals]
    /\ resp = [p \in Procs |-> NoResponse]
    /\ calls = 0
    /\ now = 1


\* four users with a wallet each, where alice and carol have deposited: the
\* state after their CreateWallet calls and one Deposit call each
InitDisjoint ==
    /\ \E a, c \in {60, 100} :
         /\ wallets = <<[UserID |-> 1, Balance |-> a], [UserID |-> 2, Balance |-> 0],
                        [UserID |-> 4, Balance |-> c], [UserID |-> 5, Balance |-> 0]>>
         /\ txs = <<[ID |-> 1, FromWalletID |-> Nil, ToWalletID |-> 1, Amount |-> a,
                     Type |-> "deposit", CreatedAt |-> 1],
                    [ID |-> 2, FromWalletID |-> Nil, ToWalletID |-> 3, Amount |-> c,
                     Type |-> "deposit", CreatedAt |-> 1]>>
    /\ cache = [k \in {} |-> NoPage]
    /\ ttl = [k \in {} |-> 0]
    /\ pc = [p \in Procs |-> "idle"]
    /\ req = [p \in Procs |-> NoRequest]
    /\ loc = [p \in Procs |-> NoLocals]
    /\ resp = [p \in Procs |-> NoResponse]
    /\ calls = 0
    /\ now = 1

(* --------------------------- request slots ---------------------------- *)

InFlight(q) == pc[q] \notin {"idle", "done"}

\* a new request is served in the first slot that serves none
Free(p) ==
    /\ ~InFlight(p)
    /\ \A q \in Procs : InFlight(q) \/ q = p \/ p = "p1"
    /\ calls < MaxCalls

\* the users whose account a request names
Named(r) ==
    IF r.op \in {"users", "alltxs"} THEN Users
    ELSE {r.user} \cup (IF r.op = "transfer" THEN {UserByName(r.to)} \ {0} ELSE {})

\* a request that names one of these users is being served
Busy(us) == \E q \in Procs : InFlight(q) /\ Named(req[q]) \cap us # {}

\* serial: the request is admitted only when no request on its accounts is
\* being served (the clients of an account do not overlap their calls)
Admit(serial, r) == serial => ~Busy(Named(r))

\* the handler of slot p starts on request r and stands at label, with
\* locals l and response a (a response only if label is "done"); the
\* responses of the calls that ended before are taken by their clients
Begin(p, r, label, l, a) ==
    /\ pc' = [q \in Procs |-> IF q = p THEN label ELSE IF InFlight(q) THEN pc[q] ELSE "idle"]
    /\ req' = [q \in Procs |-> IF q = p THEN r ELSE IF InFlight(q) THEN req[q] ELSE NoRequest]
    /\ resp' = [q \in Procs |-> IF q = p THEN a ELSE IF InFlight(q) THEN resp[q] ELSE NoResponse]
    /\ loc' = [loc EXCEPT ![p] = l]
    /\ calls' = calls + 1

\* c.JSON(...) followed by return, in the first step of a handler
Reject(p, r, a) == Begin(p, r, "done", NoLocals, a)
Answer(p, r, a) == Begin(p, r, "done", NoLocals, a)

Goto(p, label) == pc' = [pc EXCEPT ![p] = label]

\* c.JSON(...) followed by return: the handler ends
Finish(p, a) ==
    /\ pc' = [pc EXCEPT ![p] = "done"]
    /\ resp' = [resp EXCEPT ![p] = a]
    /\ loc' = [loc EXCEPT ![p] = NoLocals]

(* --------------------------- TransferHandler -------------------------- *)

\* a validation that lets the amount zero pass
ValidAmountNonNegative(amount) == amount >= 0

\* binding:"required,gt=0" of ShouldBindJSON and "req.Amount <= 0": the
\* amount a Transfer or a Deposit accepts
ValidAmount(amount) == amount > 0

\* a transaction that debits the sender and records the transfer, without
\* the credit
TransferCommitNoCredit(ws, ts, from, to, amount, at) ==
    <<UpdateBalance(ws, from.ID, 0 - amount),
      InsertTx(ts, from.ID, to.ID, amount, "transfer", at)>>

\* the body of db.Transaction in TransferHandler: debit, credit, record
TransferCommit(ws, ts, from, to, amount, at) ==
    <<UpdateBalance(UpdateBalance(ws, from.ID, 0 - amount), to.ID, amount),
      InsertTx(ts, from.ID, to.ID, amount, "transfer", at)>>

\* a handler without the self-transfer check
IsSelfNever(toUser, fromUserID) == FALSE

\* "if toUser.ID == fromUserID": the transfer is to the caller
IsSelf(toUser, fromUserID) == toUser = fromUserID

\* ShouldBindJSON, the amount check, the lookup of the target user and the
\* self-transfer check
TransferStartFrom(p, serial, senders, names) ==
    \E u \in senders, name \in names, amount \in Amounts :
      LET r == [NoRequest EXCEPT !.op = "transfer", !.user = u, !.to = name, !.amount = amount]
          toUser == UserByName(name)
      IN  /\ Free(p)
          /\ Admit(serial, r)
          /\ IF ~ValidAmount(amount) THEN Reject(p, r, InvalidRequest)
             ELSE IF toUser = 0 THEN Reject(p, r, TargetNotFound)
             ELSE IF IsSelf(toUser, u) THEN Reject(p, r, SelfTransfer)
             ELSE Begin(p, r, "t_from", [NoLocals EXCEPT !.toUser = toUser], NoResponse)
          /\ UNCHANGED <<wallets, txs, cache, ttl, now>>

TransferStart(p, serial) == TransferStartFrom(p, serial, Users, Usernames)

\* a handler that takes the sender's wallet from the cache when it is there
SenderWalletCacheFirst(p) ==
    IF CacheHit(cache, WalletKey(req[p].user))
      THEN UnmarshalWallet(cache[WalletKey(req[p].user)])
      ELSE FirstWallet(wallets, req[p].user)

\* the sender's wallet that TransferHandler decides on: the row of the store
SenderWallet(p) == FirstWallet(wallets, req[p].user)

\* db.Where("user_id = ?", fromUserID).First(&fromWallet)
TransferReadFrom(p) ==
    /\ pc[p] = "t_from"
    /\ LET w == SenderWallet(p)
       IN  IF ~Found(w) THEN Finish(p, SenderNotFound)
           ELSE /\ Goto(p, "t_to")
                /\ loc' = [loc EXCEPT ![p].from = w]
                /\ UNCHANGED resp
    /\ UNCHANGED <<wallets, txs, cache, ttl, req, calls, now>>

\* a handler without the check of the funds
EnoughFundsAlways(fromWallet, amount) == TRUE

\* the check of the funds, on the balance that TransferReadFrom read
EnoughFunds(fromWallet, amount) == ~(fromWallet.Balance < amount)

\* db.Where("user_id = ?", toUser.ID).First(&toWallet), then the check of
\* the funds
TransferReadTo(p) ==
    /\ pc[p] = "t_to"
    /\ LET w == FirstWallet(wallets, loc[p].toUser)
       IN  IF ~Found(w) THEN Finish(p, RecipientNotFound)
           ELSE IF ~EnoughFunds(loc[p].from, req[p].amount) THEN Finish(p, InsufficientFunds)
           ELSE /\ Goto(p, "t_tx")
                /\ loc' = [loc EXCEPT ![p].to = w]
                /\ UNCHANGED resp
    /\ UNCHANGED <<wallets, txs, cache, ttl, req, calls, now>>

\* db.Transaction(...): the three statements commit together
TransferTx(p) ==
    /\ pc[p] = "t_tx"
    /\ LET after == TransferCommit(wallets, txs, loc[p].from, loc[p].to, req[p].amount, now)
       IN  /\ wallets' = after[1]
           /\ txs' = after[2]
    /\ Goto(p, "t_del_from")
    /\ UNCHANGED <<cache, ttl, req, loc, resp, calls, now>>

\* a transaction whose statements stay applied when the closure fails
RollbackNothing(before, partial) == partial

\* db.Transaction when the closure returns an error: gorm rolls the
\* transaction back, and the store is as it was before the first statement
Rollback(before, partial) == before

\* the store inside the transaction of TransferHandler after its first k
\* statements (debit, credit, record)
TransferStatements(ws, ts, from, to, amount, at, k) ==
    CASE k = 0 -> <<ws, ts>>
      [] k = 1 -> <<UpdateBalance(ws, from.ID, 0 - amount), ts>>
      [] k = 2 -> <<UpdateBalance(UpdateBalance(ws, from.ID, 0 - amount), to.ID, amount), ts>>
      [] OTHER -> TransferCommit(ws, ts, from, to, amount, at)

\* db.Transaction(...) where statement k returns a store error: "return
\* err", the rollback, and the answer 500 before any cache delete
TransferTxFail(p) ==
    /\ pc[p] = "t_tx"
    /\ \E k \in 1..3 :
         LET after == Rollback(<<wallets, txs>>,
                        TransferStatements(wallets, txs, loc[p].from, loc[p].to,
                                           req[p].amount, now, k - 1))
         IN  /\ wallets' = after[1]
             /\ txs' = after[2]
    /\ Finish(p, TransferFailed)
    /\ UNCHANGED <<cache, ttl, req, calls, now>>

\* utils.DeleteCache(ctx, rdb, fromKey)
TransferDelFrom(p) ==
    /\ pc[p] = "t_del_from"
    /\ cache' = DeleteCache(cache, WalletKey(req[p].user))
    /\ ttl' = Expiries(ttl, cache', {})
    /\ Goto(p, "t_del_to")
    /\ UNCHANGED <<wallets, txs, req, loc, resp, calls, now>>

\* a handler that builds the second key from the sender's ID too
ToKeyOfSender(p) == WalletKey(req[p].user)

\* toKey := "wallet:user:" + strconv.Itoa(int(toUser.ID))
ToKey(p) == WalletKey(loc[p].toUser)

\* utils.DeleteCache(ctx, rdb, toKey)
TransferDelTo(p) ==
    /\ pc[p] = "t_del_to"
    /\ cache' = DeleteCache(cache, ToKey(p))
    /\ ttl' = Expiries(ttl, cache', {})
    /\ Goto(p, "t_del_tx")
    /\ UNCHANGED <<wallets, txs, req, loc, resp, calls, now>>

\* the key of page i of the default size of a user
InvalidatedKey(uid, i) == TxKey(uid, i, DefaultPageSize)

\* a loop that starts at the second page: "for i := 2; i <= n; i++"
RECURSIVE DeletePagesFromSecond(_, _, _)
DeletePagesFromSecond(c, uid, n) ==
    IF n <= 1 THEN c
    ELSE DeleteCache(DeletePagesFromSecond(c, uid, n - 1), InvalidatedKey(uid, n))

\* the loop "for i := 1; i <= n; i++" of DeleteCache calls on the pages of
\* the default size of a user
RECURSIVE DeletePages(_, _, _)
DeletePages(c, uid, n) ==
    IF n = 0 THEN c
    ELSE DeleteCache(DeletePages(c, uid, n - 1), InvalidatedKey(uid, n))

\* the loop that deletes the first pages of both users, then the answer
TransferDelTx(p) ==
    /\ pc[p] = "t_del_tx"
    /\ cache' = DeletePages(DeletePages(cache, req[p].user, InvalidatedPages),
                            loc[p].toUser, InvalidatedPages)
    /\ ttl' = Expiries(ttl, cache', {})
    /\ Finish(p, TransferOK)
    /\ UNCHANGED <<wallets, txs, req, calls, now>>

(* --------------------------- DepositHandler --------------------------- *)

\* a transaction that credits the wallet without the record
DepositCommitNoEntry(ws, ts, wallet, amount, at) ==
    <<UpdateBalance(ws, wallet.ID, amount), ts>>

\* a transaction that writes back the balance the handler read plus the
\* amount (read-modify-write in the handler)
DepositCommitReadModifyWrite(ws, ts, wallet, amount, at) ==
    <<[i \in DOMAIN ws |->
         IF i = wallet.ID THEN [ws[i] EXCEPT !.Balance = wallet.Balance + amount] ELSE ws[i]],
      InsertTx(ts, Nil, wallet.ID, amount, "deposit", at)>>

\* the body of db.Transaction in DepositHandler: credit, record
DepositCommit(ws, ts, wallet, amount, at) ==
    <<UpdateBalance(ws, wallet.ID, amount),
      InsertTx(ts, Nil, wallet.ID, amount, "deposit", at)>>

\* ShouldBindJSON, the amount check and
\* db.Where("user_id = ?", userID).First(&wallet)
DepositStartFrom(p, serial, users) ==
    \E u \in users, amount \in Amounts :
      LET r == [NoRequest EXCEPT !.op = "deposit", !.user = u, !.amount = amount]
          w == FirstWallet(wallets, u)
      IN  /\ Free(p)
          /\ Admit(serial, r)
          /\ IF ~ValidAmount(amount) THEN Reject(p, r, InvalidAmount)
             ELSE IF ~Found(w) THEN Reject(p, r, WalletNotFound)
             ELSE Begin(p, r, "d_tx", [NoLocals EXCEPT !.to = w], NoResponse)
          /\ UNCHANGED <<wallets, txs, cache, ttl, now>>

DepositStart(p, serial) == DepositStartFrom(p, serial, Users)

\* db.Transaction(...): the two statements commit together
DepositTx(p) ==
    /\ pc[p] = "d_tx"
    /\ LET after == DepositCommit(wallets, txs, loc[p].to, req[p].amount, now)
       IN  /\ wallets' = after[1]
           /\ txs' = after[2]
    /\ Goto(p, "d_del")
    /\ UNCHANGED <<cache, ttl, req, loc, resp, calls, now>>

\* the store inside the transaction of DepositHandler after its first k
\* statements (credit, record)
DepositStatements(ws, ts, wallet, amount, at, k) ==
    CASE k = 0 -> <<ws, ts>>
      [] k = 1 -> <<UpdateBalance(ws, wallet.ID, amount), ts>>
      [] OTHER -> DepositCommit(ws, ts, wallet, amount, at)

\* db.Transaction(...) where statement k returns a store error
DepositTxFail(p) ==
    /\ pc[p] = "d_tx"
    /\ \E k \in 1..2 :
         LET after == Rollback(<<wallets, txs>>,
                        DepositStatements(wallets, txs, loc[p].to, req[p].amount, now, k - 1))
         IN  /\ wallets' = after[1]
             /\ txs' = after[2]
    /\ Finish(p, DepositFailed)
    /\ UNCHANGED <<cache, ttl, req, calls, now>>

\* utils.DeleteCache(ctx, rdb, userKey)
DepositDel(p) ==
    /\ pc[p] = "d_del"
    /\ cache' = DeleteCache(cache, WalletKey(req[p].user))
    /\ ttl' = Expiries(ttl, cache', {})
    /\ Goto(p, "d_del_tx")
    /\ UNCHANGED <<wallets, txs, req, loc, resp, calls, now>>

\* the loop that deletes the first pages of the user, then the answer
DepositDelTx(p) ==
    /\ pc[p] = "d_del_tx"
    /\ cache' = DeletePages(cache, req[p].user, InvalidatedPages)
    /\ ttl' = Expiries(ttl, cache', {})
    /\ Finish(p, DepositOK)
    /\ UNCHANGED <<wallets, txs, req, calls, now>>

(* ------------------------- CreateWalletHandler ------------------------ *)

\* db.Where("user_id = ?", userID).First(&wallet)
CreateStart(p, serial) ==
    \E u \in Users :
      LET r == [NoRequest EXCEPT !.op = "create", !.user = u]
      IN  /\ Free(p)
          /\ Admit(serial, r)
          /\ IF Found(FirstWallet(wallets, u)) THEN Reject(p, r, AlreadyExists)
             ELSE Begin(p, r, "c_insert", NoLocals, NoResponse)
          /\ UNCHANGED <<wallets, txs, cache, ttl, now>>

\* db.Create(&wallet)
CreateInsert(p) ==
    /\ pc[p] = "c_insert"
    /\ IF CanInsertWallet(wallets, req[p].user)
         THEN /\ wallets' = InsertWallet(wallets, req[p].user)
              /\ Goto(p, "c_del")
              /\ loc' = [loc EXCEPT ![p].to = WalletRow(wallets', Len(wallets'))]
              /\ UNCHANGED resp
         ELSE /\ Finish(p, CreateFailed)
              /\ UNCHANGED wallets
    /\ UNCHANGED <<txs, cache, ttl, req, calls, now>>

\* utils.DeleteCache(ctx, rdb, userKey), then the answer
CreateDel(p) ==
    /\ pc[p] = "c_del"
    /\ cache' = DeleteCache(cache, WalletKey(req[p].user))
    /\ ttl' = Expiries(ttl, cache', {})
    /\ Finish(p, [Reply(201, "Wallet created") EXCEPT !.wallet = loc[p].to])
    /\ UNCHANGED <<wallets, txs, req, calls, now>>

(* --------------------------- GetWalletHandler ------------------------- *)

\* utils.GetCache(ctx, rdb, cacheKey, &wallet)
GetWalletStartFrom(p, serial, users) ==
    \E u \in users :
      LET r == [NoRequest EXCEPT !.op = "balance", !.user = u]
      IN  /\ Free(p)
          /\ Admit(serial, r)
          /\ IF CacheHit(cache, WalletKey(u))
               THEN Answer(p, r, [Reply(200, "") EXCEPT !.cached = TRUE,
                                      !.wallet = UnmarshalWallet(cache[WalletKey(u)])])
               ELSE Begin(p, r, "g_db", NoLocals, NoResponse)
          /\ UNCHANGED <<wallets, txs, cache, ttl, now>>

GetWalletStart(p, serial) == GetWalletStartFrom(p, serial, Users)

\* a handler that caches the zero wallet when the user has none
CacheAbsence(c, uid) == SetCache(c, WalletKey(uid), MarshalWallet(NoWallet))

\* the cache after GetWalletHandler found no wallet: it returns 404 before
\* its SetCache call
CacheAfterNotFound(c, uid) == c

\* db.Where("user_id = ?", userID).First(&wallet)
GetWalletRead(p) ==
    /\ pc[p] = "g_db"
    /\ LET w == FirstWallet(wallets, req[p].user)
       IN  IF ~Found(w)
             THEN /\ Finish(p, WalletNotFound)
                  /\ cache' = CacheAfterNotFound(cache, req[p].user)
             ELSE /\ Goto(p, "g_set")
                  /\ loc' = [loc EXCEPT ![p].to = w]
                  /\ UNCHANGED <<resp, cache>>
    /\ ttl' = Expiries(ttl, cache', DOMAIN cache' \ DOMAIN cache)
    /\ UNCHANGED <<wallets, txs, req, calls, now>>

\* utils.SetCache(ctx, rdb, cacheKey, wallet, 60*time.Second), then the answer
GetWalletSet(p) ==
    /\ pc[p] = "g_set"
    /\ cache' = SetCache(cache, WalletKey(req[p].user), MarshalWallet(loc[p].to))
    /\ ttl' = Expiries(ttl, cache', {WalletKey(req[p].user)})
    /\ Finish(p, [Reply(200, "") EXCEPT !.wallet = loc[p].to])
    /\ UNCHANGED <<wallets, txs, req, calls, now>>

(* --------------------- GetTransactionHistoryHandler ------------------- *)

\* the page the handler uses for the query value "page"
EffectivePage(s) ==
    IF s # "" /\ Atoi(s)[2] /\ Atoi(s)[1] > 0 THEN Atoi(s)[1] ELSE DefaultPage

\* a handler that clamps the page size into 1..MaxPageSize
EffectivePageSizeClamped(s) ==
    IF s # "" /\ Atoi(s)[2]
      THEN (IF Atoi(s)[1] > MaxPageSize THEN MaxPageSize
            ELSE IF Atoi(s)[1] < 1 THEN 1 ELSE Atoi(s)[1])
      ELSE DefaultPageSize

\* the page size the handler uses for the query value "page_size"
EffectivePageSize(s) ==
    IF s # "" /\ Atoi(s)[2] /\ Atoi(s)[1] > 0 /\ Atoi(s)[1] <= MaxPageSize
      THEN Atoi(s)[1] ELSE DefaultPageSize

\* a page count that rounds down: total / pageSize
TotalPagesFloor(total, pageSize) == total \div pageSize

\* totalPages := (int(total) + pageSize - 1) / pageSize
TotalPages(total, pageSize) == (total + pageSize - 1) \div pageSize

\* db.Where("user_id = ?", userID).First(&wallet) and the query values
HistoryStartOf(p, serial, users, pages, sizes) ==
    \E u \in users, page \in pages, size \in sizes :
      LET r == [NoRequest EXCEPT !.op = "history", !.user = u, !.page = page, !.size = size]
          w == FirstWallet(wallets, u)
      IN  /\ Free(p)
          /\ Admit(serial, r)
          /\ IF ~Found(w) THEN Reject(p, r, WalletNotFound)
             ELSE Begin(p, r, "h_get", [NoLocals EXCEPT !.to = w,
                            !.page = EffectivePage(page),
                            !.pageSize = EffectivePageSize(size)], NoResponse)
          /\ UNCHANGED <<wallets, txs, cache, ttl, now>>

HistoryStartFrom(p, serial, pages, sizes) == HistoryStartOf(p, serial, Users, pages, sizes)

HistoryStart(p, serial) == HistoryStartFrom(p, serial, PageParams, SizeParams)

HistoryKey(p) == TxKey(req[p].user, loc[p].page, loc[p].pageSize)

\* utils.GetCache(ctx, rdb, cacheKey, &cached)
HistoryGet(p) ==
    /\ pc[p] = "h_get"
    /\ IF CacheHit(cache, HistoryKey(p))
         THEN Finish(p, [Reply(200, "") EXCEPT !.cached = TRUE,
                             !.hist = UnmarshalPage(cache[HistoryKey(p)])])
         ELSE /\ Goto(p, "h_count")
              /\ UNCHANGED <<loc, resp>>
    /\ UNCHANGED <<wallets, txs, cache, ttl, req, calls, now>>

\* db.Model(&domain.Transaction{}).Where(...).Count(&total)
HistoryCount(p) ==
    /\ pc[p] = "h_count"
    /\ loc' = [loc EXCEPT ![p].total = CountTx(txs, loc[p].to.ID)]
    /\ Goto(p, "h_find")
    /\ UNCHANGED <<wallets, txs, cache, ttl, req, resp, calls, now>>

\* db.Where(...).Order("created_at desc").Offset(offset).Limit(pageSize).Find(&transactions)
HistoryFind(p) ==
    /\ pc[p] = "h_find"
    /\ \E rows \in FindTx(txs, loc[p].to.ID, (loc[p].page - 1) * loc[p].pageSize, loc[p].pageSize) :
         loc' = [loc EXCEPT ![p].rows = rows]
    /\ Goto(p, "h_set")
    /\ UNCHANGED <<wallets, txs, cache, ttl, req, resp, calls, now>>

\* the response of a store read
HistoryAnswer(l) ==
    [transactions |-> l.rows, page |-> l.page, page_size |-> l.pageSize,
     total |-> l.total, total_pages |-> TotalPages(l.total, l.pageSize)]

\* utils.SetCache(ctx, rdb, cacheKey, resp, 60*time.Second), then the answer
HistorySet(p) ==
    /\ pc[p] = "h_set"
    /\ cache' = SetCache(cache, HistoryKey(p), MarshalPage(HistoryAnswer(loc[p])))
    /\ ttl' = Expiries(ttl, cache', {HistoryKey(p)})
    /\ Finish(p, [Reply(200, "") EXCEPT !.hist = HistoryAnswer(loc[p])])
    /\ UNCHANGED <<wallets, txs, req, calls, now>>

(* --------------------------- ListUsersHandler ------------------------- *)

\* the administrator, whose requests pass AdminOnlyMiddleware
Admin == 3

\* "admin:users:page=" + DefaultQuery("page", "1") + ":size=" + DefaultQuery("page_size", "20")
AdminUsersKey(page, size) ==
    "admin:users:page=" \o (IF page = "" THEN "1" ELSE page)
        \o ":size=" \o (IF size = "" THEN "20" ELSE size)

\* db.Preload("Wallet").Offset(offset).Limit(pageSize).Find(&users) mapped to
\* UserAdminResponse: the users with their wallet, the zero wallet if none
UsersWithWallets(ws, offset, limit) ==
    Slice([u \in 1..Cardinality(Users) |-> [ID |-> u, Wallet |-> FirstWallet(ws, u)]],
          offset, limit)

\* json.Marshal of the listing (a gin.H with "cached": false) and
\* json.Unmarshal into the handler's cached struct
MarshalUsers(h) ==
    [kind |-> "users", users |-> h.users, page |-> h.page, page_size |-> h.page_size,
     total |-> h.total, total_pages |-> h.total_pages, cached |-> FALSE]
UnmarshalUsers(j) ==
    [users |-> j.users, page |-> j.page, page_size |-> j.page_size,
     total |-> j.total, total_pages |-> j.total_pages]

\* utils.GetCache(ctx, rdb, cacheKey, &cached), then the page and the page size
ListUsersStart(p, serial) ==
    LET r == [NoRequest EXCEPT !.op = "users", !.user = Admin]
        key == AdminUsersKey(r.page, r.size)
    IN  /\ Free(p)
        /\ Admit(serial, r)
        /\ IF CacheHit(cache, key)
             THEN Answer(p, r, [Reply(200, "") EXCEPT !.cached = TRUE,
                                    !.users = UnmarshalUsers(cache[key])])
             ELSE Begin(p, r, "u_db",
                        [NoLocals EXCEPT !.page = EffectivePage(r.page),
                                         !.pageSize = EffectivePageSize(r.size)],
                        NoResponse)
        /\ UNCHANGED <<wallets, txs, cache, ttl, now>>

\* db.Model(&domain.User{}).Count(&total) and the Find with the wallets (no
\* handler of the model writes the table users, so the two reads are one step)
ListUsersFind(p) ==
    /\ pc[p] = "u_db"
    /\ loc' = [loc EXCEPT ![p].total = Cardinality(Users),
                          ![p].users = UsersWithWallets(wallets,
                                          (loc[p].page - 1) * loc[p].pageSize, loc[p].pageSize)]
    /\ Goto(p, "u_set")
    /\ UNCHANGED <<wallets, txs, cache, ttl, req, resp, calls, now>>

\* respData of ListUsersHandler
ListUsersAnswer(l) ==
    [users |-> l.users, page |-> l.page, page_size |-> l.pageSize,
     total |-> l.total, total_pages |-> TotalPages(l.total, l.pageSize)]

\* utils.SetCache(ctx, rdb, cacheKey, respData, 60*time.Second), then the answer
ListUsersSet(p) ==
    /\ pc[p] = "u_set"
    /\ cache' = SetCache(cache, AdminUsersKey(req[p].page, req[p].size),
                         MarshalUsers(ListUsersAnswer(loc[p])))
    /\ ttl' = Expiries(ttl, cache', {AdminUsersKey(req[p].page, req[p].size)})
    /\ Finish(p, [Reply(200, "") EXCEPT !.users = ListUsersAnswer(loc[p])])
    /\ UNCHANGED <<wallets, txs, req, calls, now>>

(* ------------------------ ListTransactionsHandler --------------------- *)

\* "admin:txs:" + the query values user_id, type, from, to, page, page_size,
\* each "" when absent; the administrator of the model sends no filter
AdminTxsKey(page, size) ==
    "admin:txs:user_id=:type=:from=:to=:page=" \o page \o ":page_size=" \o size

\* query.Order("created_at desc").Offset(offset).Limit(pageSize).Find(&txs)
\* without a filter: the result lists the store may return
FindAllTx(ts, offset, limit) ==
    {Slice(rows, offset, limit) : rows \in Orders(ts, DOMAIN ts)}

\* utils.GetCache(ctx, rdb, cacheKey, &cached), then the page and the page size
ListTransactionsStart(p, serial) ==
    LET r == [NoRequest EXCEPT !.op = "alltxs", !.user = Admin]
        key == AdminTxsKey(r.page, r.size)
    IN  /\ Free(p)
        /\ Admit(serial, r)
        /\ IF CacheHit(cache, key)
             THEN Answer(p, r, [Reply(200, "") EXCEPT !.cached = TRUE,
                                    !.hist = UnmarshalPage(cache[key])])
             ELSE Begin(p, r, "a_count",
                        [NoLocals EXCEPT !.page = EffectivePage(r.page),
                                         !.pageSize = EffectivePageSize(r.size)],
                        NoResponse)
        /\ UNCHANGED <<wallets, txs, cache, ttl, now>>

\* query.Count(&total)
ListTransactionsCount(p) ==
    /\ pc[p] = "a_count"
    /\ loc' = [loc EXCEPT ![p].total = Len(txs)]
    /\ Goto(p, "a_find")
    /\ UNCHANGED <<wallets, txs, cache, ttl, req, resp, calls, now>>

\* query.Order("created_at desc").Offset(offset).Limit(pageSize).Find(&txs)
ListTransactionsFind(p) ==
    /\ pc[p] = "a_find"
    /\ \E rows \in FindAllTx(txs, (loc[p].page - 1) * loc[p].pageSize, loc[p].pageSize) :
         loc' = [loc EXCEPT ![p].rows = rows]
    /\ Goto(p, "a_set")
    /\ UNCHANGED <<wallets, txs, cache, ttl, req, resp, calls, now>>

\* utils.SetCache(ctx, rdb, cacheKey, respData, 60*time.Second), then the answer
ListTransactionsSet(p) ==
    /\ pc[p] = "a_set"
    /\ cache' = SetCache(cache, AdminTxsKey(req[p].page, req[p].size),
                         MarshalPage(HistoryAnswer(loc[p])))
    /\ ttl' = Expiries(ttl, cache', {AdminTxsKey(req[p].page, req[p].size)})
    /\ Finish(p, [Reply(200, "") EXCEPT !.hist = HistoryAnswer(loc[p])])
    /\ UNCHANGED <<wallets, txs, req, calls, now>>

(* ------------------------------- Redis -------------------------------- *)

\* a key set with a time-to-live of 60 seconds is dropped by Redis when the
\* time has passed: from the handlers' side, at any moment
Expire ==
    /\ \E k \in DOMAIN cache : cache' = DeleteCache(cache, k)
    /\ ttl' = Expiries(ttl, cache', {})
    /\ UNCHANGED <<wallets, txs, pc, req, loc, resp, calls, now>>

(* --------------------------- Redis failures --------------------------- *)

\* a handler that reports the error of a cache call to the caller
CacheErrorEscalated(a) == Reply(500, "Cache unavailable")

\* "_ = utils.SetCache(...)", "_ = utils.DeleteCache(...)": the error of the
\* cache call is discarded and the handler answers what it was to answer
CacheErrorDiscarded(a) == a

\* utils.GetCache returns an error in GetWalletHandler: "err == nil && found"
\* is false, and the handler goes on to the store
GetWalletStartFail(p, serial) ==
    \E u \in Users :
      LET r == [NoRequest EXCEPT !.op = "balance", !.user = u]
      IN  /\ Free(p)
          /\ Admit(serial, r)
          /\ Begin(p, r, "g_db", NoLocals, NoResponse)
          /\ UNCHANGED <<wallets, txs, cache, ttl, now>>

\* utils.SetCache returns an error in GetWalletHandler
GetWalletSetFail(p) ==
    /\ pc[p] = "g_set"
    /\ Finish(p, CacheErrorDiscarded([Reply(200, "") EXCEPT !.wallet = loc[p].to]))
    /\ UNCHANGED <<wallets, txs, cache, ttl, req, calls, now>>

\* utils.GetCache returns an error in GetTransactionHistoryHandler
HistoryGetFail(p) ==
    /\ pc[p] = "h_get"
    /\ Goto(p, "h_count")
    /\ UNCHANGED <<wallets, txs, cache, ttl, req, loc, resp, calls, now>>

\* utils.SetCache returns an error in GetTransactionHistoryHandler
HistorySetFail(p) ==
    /\ pc[p] = "h_set"
    /\ Finish(p, CacheErrorDiscarded([Reply(200, "") EXCEPT !.hist = HistoryAnswer(loc[p])]))
    /\ UNCHANGED <<wallets, txs, cache, ttl, req, calls, now>>

\* utils.DeleteCache of a wallet key returns an error in a mutating handler
WalletDelFail(p) ==
    /\ \/ pc[p] = "t_del_from" /\ Goto(p, "t_del_to") /\ UNCHANGED <<loc, resp>>
       \/ pc[p] = "t_del_to" /\ Goto(p, "t_del_tx") /\ UNCHANGED <<loc, resp>>
       \/ pc[p] = "d_del" /\ Goto(p, "d_del_tx") /\ UNCHANGED <<loc, resp>>
       \/ /\ pc[p] = "c_del"
          /\ Finish(p, CacheErrorDiscarded([Reply(201, "Wallet created") EXCEPT !.wallet = loc[p].to]))
    /\ UNCHANGED <<wallets, txs, cache, ttl, req, calls, now>>

\* the keys that the loops of DeleteCache calls of slot p delete
LoopKeys(p) ==
    {InvalidatedKey(u, i) : u \in {req[p].user} \cup ({loc[p].toUser} \ {0}),
                            i \in 1..InvalidatedPages}

\* some DeleteCache calls of the loop over the history pages return an
\* error: the keys of those calls stay, the others are deleted
PagesDelFail(p) ==
    /\ pc[p] \in {"t_del_tx", "d_del_tx"}
    /\ \E kept \in SUBSET (LoopKeys(p) \cap DOMAIN cache) :
         cache' = [k \in DOMAIN cache \ (LoopKeys(p) \ kept) |-> cache[k]]
    /\ ttl' = Expiries(ttl, cache', {})
    /\ Finish(p, CacheErrorDiscarded(IF pc[p] = "t_del_tx" THEN TransferOK ELSE DepositOK))
    /\ UNCHANGED <<wallets, txs, req, calls, now>>

(* ------------------------------ the clock ---------------------------- *)

\* a millisecond passes; the clock is read only to stamp a new row, so the
\* model lets it run no further than one past the last stamp
Tick ==
    /\ txs # << >> /\ now = txs[Len(txs)].CreatedAt
    /\ now' = now + 1
    /\ UNCHANGED <<wallets, txs, cache, ttl, pc, req, loc, resp, calls>>

\* the steps of the clock and the last time it shows where the entries of
\* the cache age
TickMillis == 30000
MaxTicks == 2

\* a key whose time-to-live does not run down
RemainingForever(t, d) == t

\* the time-to-live of a key that had t left, after d milliseconds
Remaining(t, d) == t - d

\* TickMillis pass: Redis counts down the time-to-live of every key and
\* drops the keys that have none left
Elapse ==
    /\ now + TickMillis <= 1 + MaxTicks * TickMillis
    /\ now' = now + TickMillis
    /\ LET live == {k \in DOMAIN cache : Remaining(ttl[k], TickMillis) > 0}
       IN  /\ cache' = [k \in live |-> cache[k]]
           /\ ttl' = [k \in live |-> Remaining(ttl[k], TickMillis)]
    /\ UNCHANGED <<wallets, txs, pc, req, loc, resp, calls>>

(* --------------------------- specifications --------------------------- *)

TransferStep(p) ==
    \/ TransferReadFrom(p) \/ TransferReadTo(p) \/ TransferTx(p)
    \/ TransferDelFrom(p) \/ TransferDelTo(p) \/ TransferDelTx(p)

DepositStep(p) == DepositTx(p) \/ DepositDel(p) \/ DepositDelTx(p)

CreateStep(p) == CreateInsert(p) \/ CreateDel(p)

GetWalletStep(p) == GetWalletRead(p) \/ GetWalletSet(p)

HistoryStep(p) == HistoryGet(p) \/ HistoryCount(p) \/ HistoryFind(p) \/ HistorySet(p)

\* the ledger and its balance cache: the handlers that write the store and
\* GetWalletHandler run concurrently, in any interleaving of their accesses.
\* None of them reads a CreatedAt, so the clock stands still here.
Next ==
    \/ \E p \in Procs :
         \/ TransferStart(p, FALSE) \/ TransferStep(p)
         \/ DepositStart(p, FALSE) \/ DepositStep(p)
         \/ CreateStart(p, FALSE) \/ CreateStep(p)
         \/ GetWalletStart(p, FALSE) \/ GetWalletStep(p)
    \/ Expire

Spec == Init /\ [][Next]_vars

\* the same handlers, where the calls that name the same account do not
\* overlap: every call on an account ends before the next one on it starts
SerialNext ==
    \/ \E p \in Procs :
         \/ TransferStart(p, TRUE) \/ TransferStep(p)
         \/ DepositStart(p, TRUE) \/ DepositStep(p)
         \/ CreateStart(p, TRUE) \/ CreateStep(p)
         \/ GetWalletStart(p, TRUE) \/ GetWalletStep(p)
    \/ Expire

SerialSpec == Init /\ [][SerialNext]_vars

\* the transaction history and its cache: deposits, transfers and
\* GetTransactionHistoryHandler, where the calls that name the same account
\* do not overlap, and the clock runs
HistoryNext ==
    \/ \E p \in Procs :
         \/ TransferStart(p, TRUE) \/ TransferStep(p)
         \/ DepositStart(p, TRUE) \/ DepositStep(p)
         \/ HistoryStart(p, TRUE) \/ HistoryStep(p)
    \/ Expire
    \/ Tick

HistorySpec == Init /\ [][HistoryNext]_vars

\* the ledger with a store that may fail: deposits, transfers and
\* GetWalletHandler run concurrently, and any statement of a transaction
\* may return an error
FaultNext ==
    \/ \E p \in Procs :
         \/ TransferStart(p, FALSE) \/ TransferStep(p) \/ TransferTxFail(p)
         \/ DepositStart(p, FALSE) \/ DepositStep(p) \/ DepositTxFail(p)
         \/ GetWalletStart(p, FALSE) \/ GetWalletStep(p)
    \/ Expire

FaultSpec == Init /\ [][FaultNext]_vars

\* all handlers of the wallet API with a cache that may fail: any call of
\* GetCache, SetCache or DeleteCache may return an error; the calls that
\* name the same account do not overlap
CacheFaultNext ==
    \/ \E p \in Procs :
         \/ TransferStart(p, TRUE) \/ TransferStep(p)
         \/ DepositStart(p, TRUE) \/ DepositStep(p)
         \/ CreateStart(p, TRUE) \/ CreateStep(p)
         \/ GetWalletStart(p, TRUE) \/ GetWalletStep(p)
         \/ HistoryStart(p, TRUE) \/ HistoryStep(p)
         \/ GetWalletStartFail(p, TRUE) \/ GetWalletSetFail(p)
         \/ HistoryGetFail(p) \/ HistorySetFail(p)
         \/ WalletDelFail(p) \/ PagesDelFail(p)
    \/ Expire

CacheFaultSpec == Init /\ [][CacheFaultNext]_vars

\* the transaction history of accounts that receive deposits, queried for
\* the first page with page_size values around the limits (no answer
\* depends on the order of the entries, so the clock stands still)
PagingNext ==
    \/ \E p \in Procs :
         \/ DepositStart(p, TRUE) \/ DepositStep(p)
         \/ HistoryStartFrom(p, TRUE, {""}, AllSizeParams) \/ HistoryStep(p)
    \/ Expire

PagingSpec == Init /\ [][PagingNext]_vars

ListUsersStep(p) == ListUsersFind(p) \/ ListUsersSet(p)

ListTransactionsStep(p) ==
    ListTransactionsCount(p) \/ ListTransactionsFind(p) \/ ListTransactionsSet(p)

\* the ledger and the caches of the administrator's listings: deposits,
\* transfers, GetWalletHandler, ListUsersHandler and ListTransactionsHandler,
\* where the calls that name the same account do not overlap and a listing
\* overlaps no other call
AdminNext ==
    \/ \E p \in Procs :
         \/ TransferStart(p, TRUE) \/ TransferStep(p)
         \/ DepositStart(p, TRUE) \/ DepositStep(p)
         \/ GetWalletStart(p, TRUE) \/ GetWalletStep(p)
         \/ ListUsersStart(p, TRUE) \/ ListUsersStep(p)
         \/ ListTransactionsStart(p, TRUE) \/ ListTransactionsStep(p)
    \/ Expire

AdminSpec == Init /\ [][AdminNext]_vars

\* the caches under the clock: deposits, transfers, GetWalletHandler and
\* GetTransactionHistoryHandler, where the calls that name the same account
\* do not overlap, any DeleteCache call may fail, and a key leaves the cache
\* only by a delete or when its time-to-live has run down
TtlNext ==
    \/ \E p \in Procs :
         \/ TransferStart(p, TRUE) \/ TransferStep(p)
         \/ DepositStart(p, TRUE) \/ DepositStep(p)
         \/ GetWalletStart(p, TRUE) \/ GetWalletStep(p)
         \/ HistoryStart(p, TRUE) \/ HistoryStep(p)
         \/ WalletDelFail(p) \/ PagesDelFail(p)
    \/ Elapse

TtlSpec == Init /\ [][TtlNext]_vars

\* the ledger and both caches: deposits, transfers, GetWalletHandler and
\* GetTransactionHistoryHandler for the first and the sixth page of the
\* default size, where the calls that name the same account do not overlap
InvalidationNext ==
    \/ \E p \in Procs :
         \/ TransferStart(p, TRUE) \/ TransferStep(p)
         \/ DepositStart(p, TRUE) \/ DepositStep(p)
         \/ GetWalletStart(p, TRUE) \/ GetWalletStep(p)
         \/ HistoryStartFrom(p, TRUE, PageParams, {""}) \/ HistoryStep(p)
    \/ Expire

InvalidationSpec == Init /\ [][InvalidationNext]_vars

\* transfers between disjoint pairs of accounts: alice sends to bob and
\* carol sends to dave; a call of one pair overlaps calls of the other pair
\* in any interleaving, the calls of one pair do not overlap each other
DisjointNext ==
    \E p \in Procs :
      \/ TransferStartFrom(p, TRUE, {1}, {"bob"})
      \/ TransferStartFrom(p, TRUE, {4}, {"dave"})
      \/ TransferStep(p)

DisjointSpec == InitDisjoint /\ [][DisjointNext]_vars

\* the users of FrameSpec
FourUsers == {1, 2, 4, 5}

\* the operations of alice next to the reads of carol: alice deposits and
\* sends to bob, alice and carol read their balance, carol reads the first
\* page of her history, in any interleaving
FrameNext ==
    \/ \E p \in Procs :
         \/ TransferStartFrom(p, FALSE, {1}, {"bob"}) \/ TransferStep(p)
         \/ DepositStartFrom(p, FALSE, {1}) \/ DepositStep(p)
         \/ GetWalletStartFrom(p, FALSE, {1, 4}) \/ GetWalletStep(p)
         \/ HistoryStartOf(p, FALSE, {4}, {""}, {""}) \/ HistoryStep(p)
    \/ Expire

FrameSpec == InitDisjoint /\ [][FrameNext]_vars

(* ------------------------------ the claims ---------------------------- *)

\* the store balance of the wallet of user u (0 if the user has none)
StoreBalance(u) == FirstWallet(wallets, u).Balance

RECURSIVE SumBalances(_)
SumBalances(ws) == IF ws = << >> THEN 0 ELSE ws[Len(ws)].Balance + SumBalances(SubSeq(ws, 1, Len(ws) - 1))

TotalBalance == SumBalances(wallets)

\* slot p takes a new request in this step
Starts(p) == Free(p) /\ calls' = calls + 1

\* the handler of slot p takes a step
Acts(p) == Starts(p) \/ (InFlight(p) /\ pc'[p] # pc[p])

Succeeded(p, op) == pc[p] = "done" /\ req[p].op = op /\ resp[p].status = 200

(* C1 *)
\* C1: two concurrent Transfer calls that debit the same account do not both
\* succeed when their combined amount exceeds the balance of the account:
\* whenever two overlapping transfers of one sender have both answered
\* "Transfer successful", the sender's account covered both debits, so its
\* balance is not negative (Transfer(A, B, 60) twice on a balance of 100 must
\* give one success and one InsufficientFunds, and leave 40).
C1_NoDoubleDebit ==
    \A p, q \in Procs :
        ( /\ p # q
          /\ Succeeded(p, "transfer") /\ Succeeded(q, "transfer")
          /\ req[p].user = req[q].user )
        => StoreBalance(req[p].user) >= 0

(* C2 *)
\* C2: in every reachable state of the store every account's balance is
\* greater than or equal to zero.
C2_BalanceNonNegative == \A i \in DOMAIN wallets : wallets[i].Balance >= 0

(* C3 *)
\* C3: transfers conserve money: no step of any handler changes the sum of
\* all balances, except the commit of a deposit, which adds its amount; in
\* particular no state shows a debit without its credit.
C3_TransfersConserve ==
    [][ TotalBalance' # TotalBalance =>
          \E p \in Procs : /\ pc[p] = "d_tx" /\ pc'[p] = "d_del"
                           /\ TotalBalance' = TotalBalance + req[p].amount ]_vars

C3_Witness ==
    /\ \E p \in Procs : Succeeded(p, "transfer")
    /\ \E i \in DOMAIN txs : txs[i].Type = "transfer"
    /\ TotalBalance > 0

(* C4 *)
BalanceAt(ws, id) == IF id \in DOMAIN ws THEN ws[id].Balance ELSE 0

Changed == {i \in DOMAIN wallets' : BalanceAt(wallets', i) # BalanceAt(wallets, i)}

\* C4: every balance change and its Transaction Entry commit together: a
\* step changes a balance if and only if it appends exactly one entry, the
\* wallets whose balance changes are the ones the new entry names, and the
\* entries already there stay as they are.
C4_EntryWithBalance ==
    [][ /\ (Changed # {} \/ txs' # txs) =>
              /\ Len(txs') = Len(txs) + 1
              /\ SubSeq(txs', 1, Len(txs)) = txs
              /\ Changed = {txs'[Len(txs')].FromWalletID, txs'[Len(txs')].ToWalletID} \ {Nil} ]_vars

C4_Witness ==
    /\ Len(txs) = 2
    /\ txs[1].Type = "deposit" /\ txs[2].Type = "transfer"
    /\ \E p \in Procs : pc[p] = "t_del_from"

(* C5 *)
\* the handler of slot q has committed a change of the balance of user u and
\* has not yet deleted the cached wallet of u
Invalidating(q, u) ==
    \/ pc[q] = "d_del" /\ req[q].user = u
    \/ pc[q] = "t_del_from" /\ u \in {req[q].user, loc[q].toUser}
    \/ pc[q] = "t_del_to" /\ u = loc[q].toUser

CachedWalletStale(u) ==
    /\ CacheHit(cache, WalletKey(u))
    /\ UnmarshalWallet(cache[WalletKey(u)]).Balance # StoreBalance(u)

\* C5: a cached balance is never older than the last successful mutation of
\* the account whose invalidation has completed: whenever the cache holds a
\* balance that differs from the store, a mutation of that account has
\* committed and has not yet deleted the key.
C5_CacheNeverOlder ==
    \A u \in Users : CachedWalletStale(u) => \E q \in Procs : Invalidating(q, u)

(* C6 *)
\* C6: when the calls on an account do not overlap, GetBalance returns the
\* store balance after a mutation, also when the cache held the balance from
\* before it: once the mutation has answered, the cache holds no other
\* balance than the store's, and every GetBalance answer, from the cache or
\* not, is the wallet of the store.
C6_ReadAfterWrite ==
    /\ \A u \in Users : ~Busy({u}) => ~CachedWalletStale(u)
    /\ \A p \in Procs :
         Succeeded(p, "balance") => resp[p].wallet = FirstWallet(wallets, req[p].user)

\* a mutation has committed while the cache holds the balance from before it
C6_Witness ==
    \E q \in Procs, u \in Users : Invalidating(q, u) /\ CachedWalletStale(u)


(* C7 *)
\* the answers that GetTransactionHistoryHandler computes from the store as
\* it is now, for a user, a page and a page size
CurrentAnswers(u, page, pageSize) ==
    LET w == FirstWallet(wallets, u)
        total == CountTx(txs, w.ID)
    IN  {[transactions |-> rows, page |-> page, page_size |-> pageSize, total |-> total,
          total_pages |-> TotalPages(total, pageSize)] :
            rows \in FindTx(txs, w.ID, (page - 1) * pageSize, pageSize)}

Current(u, h) == h \in CurrentAnswers(u, h.page, h.page_size)

\* a page that the mutating handlers delete
Invalidated(h) == h.page_size = DefaultPageSize /\ h.page <= InvalidatedPages

Overdraft(p) ==
    /\ req'[p].op = "transfer" /\ req'[p].amount > 0
    /\ UserByName(req'[p].to) \notin {0, req'[p].user}
    /\ Found(FirstWallet(wallets, req'[p].user))
    /\ Found(FirstWallet(wallets, UserByName(req'[p].to)))
    /\ req'[p].amount > StoreBalance(req'[p].user)

\* C8: when the calls on an account do not overlap, a Transfer of more than
\* the sender's store balance changes no balance, no entry and no cache key
\* in any of its steps, and its answer is InsufficientFunds.
C8_InsufficientFunds ==
    [][ \A p \in Procs :
          ((Starts(p) \/ (pc[p] \in {"t_from", "t_to", "t_tx"} /\ pc'[p] # pc[p]))
             /\ Overdraft(p)) =>
             /\ UNCHANGED <<wallets, txs, cache>>
             /\ pc'[p] = "done" => resp'[p] = InsufficientFunds ]_vars

C8_Witness ==
    \E p \in Procs :
      /\ pc[p] = "done" /\ resp[p] = InsufficientFunds
      /\ StoreBalance(req[p].user) > 0
      /\ req[p].amount > StoreBalance(req[p].user)
      /\ DOMAIN cache # {}

(* C9 *)
SelfRequest(r) == r.op = "transfer" /\ r.amount > 0 /\ UserByName(r.to) = r.user

\* C9: a Transfer of a positive amount to the caller's own user is answered
\* with SelfTransfer whatever the balance, before any wallet is read, and
\* the step that answers it changes no balance and adds no entry.
C9_SelfTransfer ==
    /\ [](\A p \in Procs : SelfRequest(req[p]) => pc[p] = "done" /\ resp[p] = SelfTransfer)
    /\ [][ \A p \in Procs : (Acts(p) /\ SelfRequest(req'[p])) => UNCHANGED <<wallets, txs>> ]_vars

\* a self-transfer that the caller's balance would cover is refused
C9_Witness ==
    \E p \in Procs :
      /\ SelfRequest(req[p]) /\ resp[p] = SelfTransfer
      /\ StoreBalance(req[p].user) >= req[p].amount

(* C10 *)
\* what GetWalletHandler answers for user u when it runs from this state:
\* the cached wallet if there is one, the wallet of the store if not
BalanceServedIn(c, ws, u) ==
    IF CacheHit(c, WalletKey(u)) THEN UnmarshalWallet(c[WalletKey(u)]).Balance
    ELSE FirstWallet(ws, u).Balance

\* C10: when the calls on an account do not overlap, the ledger arithmetic
\* round-trips: when a Deposit(A, x) answers, GetBalance(A) gives the balance
\* b the handler read plus x; when a Transfer(A, B, y) answers, GetBalance
\* gives A's balance less y and B's balance plus y; and every GetBalance
\* answer is the balance of the store.
C10_RoundTrip ==
    /\ [](\A p \in Procs :
            Succeeded(p, "balance") => resp[p].wallet.Balance = StoreBalance(req[p].user))
    /\ [][ \A p \in Procs :
             /\ (pc[p] = "d_del_tx" /\ pc'[p] = "done") =>
                   BalanceServedIn(cache', wallets', req[p].user) = loc[p].to.Balance + req[p].amount
             /\ (pc[p] = "t_del_tx" /\ pc'[p] = "done") =>
                   /\ BalanceServedIn(cache', wallets', req[p].user) = loc[p].from.Balance - req[p].amount
                   /\ BalanceServedIn(cache', wallets', loc[p].toUser) = loc[p].to.Balance + req[p].amount ]_vars

\* Deposit(A, 100), Transfer(A, B, 60), and GetBalance(A) answers 40 while B
\* holds 60
C10_Witness ==
    \E p \in Procs, u, v \in Users :
      /\ Succeeded(p, "balance") /\ req[p].user = u /\ u # v
      /\ resp[p].wallet.Balance = 40
      /\ StoreBalance(v) = 60
      /\ Len(txs) = 2 /\ txs[1].Type = "deposit" /\ txs[1].Amount = 100
      /\ txs[2].Type = "transfer" /\ txs[2].Amount = 60

(* C11 *)
\* the balance that the entries of the ledger give wallet id, from the zero
\* balance it is created with: its credits less its debits
RECURSIVE LedgerBalance(_, _)
LedgerBalance(ts, id) ==
    IF ts = << >> THEN 0
    ELSE LET t == ts[Len(ts)]
         IN  LedgerBalance(SubSeq(ts, 1, Len(ts) - 1), id)
               + (IF t.ToWalletID = id THEN t.Amount ELSE 0)
               - (IF t.FromWalletID = id THEN t.Amount ELSE 0)

\* C11: deposits are atomic increments of the store and none is lost: in
\* every interleaving of Deposit and Transfer calls, the balance of every
\* wallet is its initial balance (zero) plus the amounts of the committed
\* deposits and transfer credits, less the committed transfer debits.
C11_NoLostUpdate ==
    \A i \in DOMAIN wallets : wallets[i].Balance = LedgerBalance(txs, i)

\* two deposits on one account that both read the same balance have both
\* committed, and the account holds both amounts
C11_Witness ==
    \E p, q \in Procs :
      /\ p # q /\ pc[p] = "d_del" /\ pc[q] = "d_del"
      /\ req[p].user = req[q].user
      /\ loc[p].to.Balance = loc[q].to.Balance
      /\ StoreBalance(req[p].user) = loc[p].to.Balance + req[p].amount + req[q].amount

(* C12 *)
\* C12: CreateAccount for a user without an account creates one with
\* balance zero, and CreateAccount for a user who owns one fails with
\* AlreadyExists, also when two calls for one user race between the check
\* and the insert: every CreateWallet answer is either 201 with the user's
\* new wallet of balance zero, or AlreadyExists.
C12_CreateOrAlreadyExists ==
    \A p \in Procs :
      (pc[p] = "done" /\ req[p].op = "create") =>
         \/ /\ resp[p].status = 201
            /\ resp[p].wallet.UserID = req[p].user
            /\ resp[p].wallet.Balance = 0
         \/ resp[p] = AlreadyExists

(* C13 *)
\* C13: in every reachable state each user owns at most one account, and
\* no step removes an account or changes the user that owns it.
C13_OneAccountPerUser ==
    /\ [](\A i, j \in DOMAIN wallets : wallets[i].UserID = wallets[j].UserID => i = j)
    /\ [][ \A i \in DOMAIN wallets :
             i \in DOMAIN wallets' /\ wallets'[i].UserID = wallets[i].UserID ]_vars

\* two CreateWallet calls of one user have both passed the existence check;
\* one has inserted the wallet and the other's insert has been refused
C13_Witness ==
    \E p, q \in Procs :
      /\ p # q /\ req[p].op = "create" /\ req[q].op = "create"
      /\ req[p].user = req[q].user
      /\ pc[p] = "c_del" /\ pc[q] = "done" /\ resp[q] = CreateFailed
      /\ Cardinality({i \in DOMAIN wallets : wallets[i].UserID = req[p].user}) = 1

(* C14 *)
\* C14: a Deposit or Transfer whose atomic unit fails at any statement
\* leaves no partial effect: the step in which the transaction fails
\* changes no balance, no entry and no cache key, and the call answers a
\* failure (500) without any later step.
C14_FailureLeavesNothing ==
    [][ \A p \in Procs :
          (pc[p] \in {"t_tx", "d_tx"} /\ pc'[p] = "done") =>
             /\ UNCHANGED <<wallets, txs, cache>>
             /\ resp'[p] = IF pc[p] = "t_tx" THEN TransferFailed ELSE DepositFailed ]_vars

\* a transfer that the sender's balance covers has failed in its
\* transaction while the cache holds the sender's wallet
C14_Witness ==
    \E p \in Procs :
      /\ pc[p] = "done" /\ resp[p] = TransferFailed
      /\ StoreBalance(req[p].user) >= req[p].amount
      /\ CacheHit(cache, WalletKey(req[p].user))
      /\ UnmarshalWallet(cache[WalletKey(req[p].user)]).Balance = StoreBalance(req[p].user)

(* C15 *)
\* C15: a Deposit or a Transfer with an amount that is zero or negative is
\* refused in the first step of its handler, before any access to the store
\* or the cache: the step answers the handler's refusal of the amount (400
\* "Invalid amount" for a deposit, 400 "Invalid request" for a transfer) and
\* changes no balance, no entry and no cache key.
C15_InvalidAmount ==
    [][ \A p \in Procs :
          (Starts(p) /\ req'[p].op \in {"deposit", "transfer"} /\ req'[p].amount <= 0) =>
             /\ pc'[p] = "done"
             /\ resp'[p] = IF req'[p].op = "deposit" THEN InvalidAmount ELSE InvalidRequest
             /\ UNCHANGED <<wallets, txs, cache>> ]_vars

\* a transfer of a negative amount between two users who hold wallets has
\* been refused while the sender holds money and the cache holds a wallet
C15_Witness ==
    \E p \in Procs :
      /\ pc[p] = "done" /\ req[p].op = "transfer" /\ req[p].amount < 0
      /\ resp[p] = InvalidRequest
      /\ UserByName(req[p].to) \notin {0, req[p].user}
      /\ Found(FirstWallet(wallets, UserByName(req[p].to)))
      /\ StoreBalance(req[p].user) > 0
      /\ DOMAIN cache # {}

(* C16 *)
\* the answers that report a missing user or a missing wallet (404)
NotFoundAnswers == {WalletNotFound, TargetNotFound, SenderNotFound, RecipientNotFound}

\* this step ends the call of slot p with NotFound and persists nothing
RefusedNotFound(p) ==
    /\ pc'[p] = "done"
    /\ resp'[p] \in NotFoundAnswers
    /\ UNCHANGED <<wallets, txs>>

\* the step of slot p in which its handler looks for an account that the
\* request of a valid amount names, and the account is missing: the wallet
\* of the depositor, the destination user, the wallet of the sender (for a
\* transfer to oneself only if selfToo) or the wallet of the recipient
MissesAccount(p, selfToo) ==
    \/ /\ Starts(p) /\ req'[p].op = "deposit" /\ ValidAmount(req'[p].amount)
       /\ ~Found(FirstWallet(wallets, req'[p].user))
    \/ /\ Starts(p) /\ req'[p].op = "transfer" /\ ValidAmount(req'[p].amount)
       /\ UserByName(req'[p].to) = 0
    \/ /\ selfToo
       /\ Starts(p) /\ req'[p].op = "transfer" /\ ValidAmount(req'[p].amount)
       /\ UserByName(req'[p].to) = req'[p].user
       /\ ~Found(FirstWallet(wallets, req'[p].user))
    \/ /\ pc[p] = "t_from" /\ pc'[p] # pc[p]
       /\ ~Found(FirstWallet(wallets, req[p].user))
    \/ /\ pc[p] = "t_to" /\ pc'[p] # pc[p]
       /\ ~Found(FirstWallet(wallets, loc[p].toUser))

\* C16: a mutating operation on a missing account fails with NotFound and
\* persists nothing: a Deposit when the caller has no wallet, and a Transfer
\* when the destination user does not exist or the sender or the recipient
\* has no wallet, answer NotFound and leave every balance and the entries
\* unchanged.
C16_MissingAccountNotFound ==
    [][ \A p \in Procs : MissesAccount(p, TRUE) => RefusedNotFound(p) ]_vars

\* the same, for the transfers to another user
C16_MissingAccountNotFoundOthers ==
    [][ \A p \in Procs : MissesAccount(p, FALSE) => RefusedNotFound(p) ]_vars

(* C17 *)
\* C17: GetBalance is cache-first.  When the cache holds the wallet key of
\* the caller, the first step answers the cached wallet tagged cached=true
\* and the handler takes no further step (it does not read the store); when
\* it does not, the handler reads the store, and if the wallet is there it
\* writes the wallet it read under the key and answers that wallet, the
\* wallet of the store at the time of the read, tagged cached=false.
C17_CacheFirst ==
    [][ \A p \in Procs :
          LET key == WalletKey(req'[p].user)
          IN  /\ (Starts(p) /\ req'[p].op = "balance") =>
                    /\ UNCHANGED <<wallets, txs, cache>>
                    /\ IF key \in DOMAIN cache
                         THEN /\ pc'[p] = "done" /\ resp'[p].status = 200
                              /\ resp'[p].cached
                              /\ MarshalWallet(resp'[p].wallet) = cache[key]
                         ELSE pc'[p] = "g_db"
              /\ (pc[p] = "g_db" /\ pc'[p] # pc[p]) =>
                    /\ UNCHANGED <<wallets, txs, cache>>
                    /\ IF \E i \in DOMAIN wallets : wallets[i].UserID = req[p].user
                         THEN /\ pc'[p] = "g_set"
                              /\ loc'[p].to.UserID = req[p].user
                              /\ loc'[p].to.Balance = wallets[loc'[p].to.ID].Balance
                         ELSE pc'[p] = "done" /\ resp'[p] = WalletNotFound
              /\ (pc[p] = "g_set" /\ pc'[p] # pc[p]) =>
                    /\ UNCHANGED <<wallets, txs>>
                    /\ pc'[p] = "done" /\ resp'[p].status = 200
                    /\ ~resp'[p].cached
                    /\ resp'[p].wallet = loc[p].to
                    /\ key \in DOMAIN cache' /\ cache'[key] = MarshalWallet(loc[p].to)
                    /\ \A k \in DOMAIN cache \ {key} : k \in DOMAIN cache' /\ cache'[k] = cache[k] ]_vars

\* a GetBalance has answered from the cache a balance that the store no
\* longer holds
C17_Witness ==
    \E p \in Procs :
      /\ Succeeded(p, "balance") /\ resp[p].cached
      /\ resp[p].wallet.Balance # StoreBalance(req[p].user)

(* C18 *)
\* C18: GetHistory returns the entries of an account in one deterministic
\* total order, descending creation time with ties broken by the entry
\* identifier: whenever the handler runs its Find, the query
\* has exactly one order in which the store may return the account's
\* entries, so that the pages of an unchanging store neither repeat nor
\* skip an entry.
C18_DeterministicOrder ==
    \A p \in Procs :
      pc[p] = "h_find" => Cardinality(Orders(txs, Matching(txs, loc[p].to.ID))) = 1

(* C19 *)
\* the entries whose source or destination is the wallet of user u
EntriesOf(u) ==
    LET w == FirstWallet(wallets, u)
    IN  {i \in DOMAIN txs : txs[i].FromWalletID = w.ID \/ txs[i].ToWalletID = w.ID}

\* n is the ceiling of total / size
IsCeiling(n, total, size) == n * size >= total /\ (n - 1) * size < total

\* C19: in every GetHistory answer computed from the store, total is the
\* number of entries whose source or destination is the account, and
\* total_pages is the ceiling of total / page_size for the effective page
\* size, which is 0 when total is 0.
C19_TotalAndPages ==
    \A p \in Procs :
      (Succeeded(p, "history") /\ ~resp[p].cached) =>
         LET h == resp[p].hist
         IN  /\ h.total = Cardinality(EntriesOf(req[p].user))
             /\ h.page_size = EffectivePageSize(req[p].size)
             /\ IsCeiling(h.total_pages, h.total, h.page_size)
             /\ h.total = 0 => h.total_pages = 0

\* an answer from the store for an account with two entries: two pages of
\* size 1, or one page of the default size
C19_Witness ==
    \E p \in Procs :
      /\ Succeeded(p, "history") /\ ~resp[p].cached
      /\ resp[p].hist.total = 2
      /\ \/ resp[p].hist.page_size = 1 /\ resp[p].hist.total_pages = 2
         \/ resp[p].hist.page_size = DefaultPageSize /\ resp[p].hist.total_pages = 1

(* C20 *)
\* the handler of slot p has fixed the page size of its history request
Paging(p) == pc[p] \in {"h_get", "h_count", "h_find", "h_set"}

\* C20 as stated: the page size used is the requested page_size clamped to
\* 1..100 (above 100 uses 100, below 1 uses 1) and 20 when none is given,
\* and is always within 1..100.
C20_PageSizeClamped ==
    \A p \in Procs :
      Paging(p) =>
        LET v == Atoi(req[p].size)
        IN  /\ loc[p].pageSize \in 1..100
            /\ req[p].size = "" => loc[p].pageSize = 20
            /\ (req[p].size # "" /\ v[2]) =>
                  loc[p].pageSize = (IF v[1] > 100 THEN 100 ELSE IF v[1] < 1 THEN 1 ELSE v[1])

\* C20 as amended: the page size used is the requested page_size when that
\* is an integer within 1..100, and 20 in every other case (none given, not
\* a number, below 1, above 100); it is always within 1..100, and it is the
\* page_size of the answer computed from the store.
C20_PageSizeInRangeOrDefault ==
    \A p \in Procs :
      LET v == Atoi(req[p].size)
          size == IF req[p].size # "" /\ v[2] /\ v[1] \in 1..100 THEN v[1] ELSE 20
      IN  /\ Paging(p) => loc[p].pageSize = size /\ loc[p].pageSize \in 1..100
          /\ (Succeeded(p, "history") /\ ~resp[p].cached) => resp[p].hist.page_size = size

\* a request for 101 entries a page has been answered with a page size of 20
C20_Witness ==
    \E p \in Procs :
      /\ Succeeded(p, "history") /\ ~resp[p].cached
      /\ req[p].size = "101"
      /\ resp[p].hist.page_size = 20
      /\ resp[p].hist.total > 0

(* C21 *)
\* the label after a cache write or delete of slot p, and the answer the
\* handler gives if that step is its last
AfterCacheWrite(p) ==
    CASE pc[p] = "t_del_from" -> "t_del_to"
      [] pc[p] = "t_del_to" -> "t_del_tx"
      [] pc[p] = "d_del" -> "d_del_tx"
      [] OTHER -> "done"

AnswerAfterCacheWrite(p) ==
    CASE pc[p] = "t_del_tx" -> TransferOK
      [] pc[p] = "d_del_tx" -> DepositOK
      [] pc[p] = "c_del" ->
           [Reply(201, "Wallet created") EXCEPT !.wallet = FirstWallet(wallets, req[p].user)]
      [] pc[p] = "g_set" -> [Reply(200, "") EXCEPT !.wallet = loc[p].to]
      [] pc[p] = "h_set" -> [Reply(200, "") EXCEPT !.hist = HistoryAnswer(loc[p])]
      [] OTHER -> NoResponse

\* C21: cache failures are never escalated.  With a cache whose calls may
\* fail and a store that does not, no call answers 500; an answer of
\* GetBalance or GetHistory that is not tagged cached (a miss, or a cache
\* read that failed) is the value of the store; and a step that writes or
\* deletes a cache key, whether the call fails or not, leaves the store
\* unchanged, goes on where the handler goes on, and ends with the answer
\* the handler gives when the call succeeds.
C21_CacheFailuresNotEscalated ==
    /\ [](\A p \in Procs :
            /\ resp[p].status # 500
            /\ (Succeeded(p, "balance") /\ ~resp[p].cached) =>
                  resp[p].wallet = FirstWallet(wallets, req[p].user)
            /\ (Succeeded(p, "history") /\ ~resp[p].cached) =>
                  Current(req[p].user, resp[p].hist))
    /\ [][ \A p \in Procs :
             (pc[p] \in {"t_del_from", "t_del_to", "t_del_tx", "d_del", "d_del_tx",
                         "c_del", "g_set", "h_set"} /\ pc'[p] # pc[p]) =>
                /\ UNCHANGED <<wallets, txs>>
                /\ pc'[p] = AfterCacheWrite(p)
                /\ pc'[p] = "done" => resp'[p] = AnswerAfterCacheWrite(p) ]_vars

\* a deposit has answered "Deposit successful" although the delete of the
\* cached wallet failed: the cache still holds the balance from before
C21_Witness ==
    \E p \in Procs :
      /\ Succeeded(p, "deposit") /\ resp[p] = DepositOK
      /\ CachedWalletStale(req[p].user)

(* C22 *)
\* what the first step of a mutating handler decides for request r, from
\* the store alone: <<label, answer>>
StartDecision(r) ==
    CASE r.op = "create" ->
           IF \E i \in DOMAIN wallets : wallets[i].UserID = r.user
             THEN <<"done", AlreadyExists>> ELSE <<"c_insert", NoResponse>>
      [] r.op = "deposit" ->
           IF r.amount <= 0 THEN <<"done", InvalidAmount>>
           ELSE IF \A i \in DOMAIN wallets : wallets[i].UserID # r.user
             THEN <<"done", WalletNotFound>> ELSE <<"d_tx", NoResponse>>
      [] OTHER ->
           IF r.amount <= 0 THEN <<"done", InvalidRequest>>
           ELSE IF UserByName(r.to) = 0 THEN <<"done", TargetNotFound>>
           ELSE IF UserByName(r.to) = r.user THEN <<"done", SelfTransfer>>
           ELSE <<"t_from", NoResponse>>

\* what a later step of a mutating handler decides, from the store, the
\* request and the rows it read from the store: <<label, answer>>
StepDecision(p) ==
    CASE pc[p] = "t_from" ->
           IF \A i \in DOMAIN wallets : wallets[i].UserID # req[p].user
             THEN <<"done", SenderNotFound>> ELSE <<"t_to", NoResponse>>
      [] pc[p] = "t_to" ->
           IF \A i \in DOMAIN wallets : wallets[i].UserID # loc[p].toUser
             THEN <<"done", RecipientNotFound>>
           ELSE IF loc[p].from.Balance < req[p].amount THEN <<"done", InsufficientFunds>>
           ELSE <<"t_tx", NoResponse>>
      [] pc[p] = "t_tx" -> <<"t_del_from", NoResponse>>
      [] pc[p] = "d_tx" -> <<"d_del", NoResponse>>
      [] OTHER ->
           IF \E i \in DOMAIN wallets : wallets[i].UserID = req[p].user
             THEN <<"done", CreateFailed>> ELSE <<"c_del", NoResponse>>

\* C22: the cache is never an input to a mutating decision.  Every deciding
\* step of CreateWallet, Deposit and Transfer leads to the label and the
\* answer that the store, the request and the rows read from the store
\* determine, whatever the cache holds; the wallets it reads are the rows of
\* the store; and the store after it is the store before it with the
\* handler's increments and its entry, computed on the store.
C22_CacheNotAnInput ==
    [][ \A p \in Procs :
          /\ (Starts(p) /\ req'[p].op \in {"create", "deposit", "transfer"}) =>
                /\ <<pc'[p], resp'[p]>> = StartDecision(req'[p])
                /\ UNCHANGED <<wallets, txs>>
                /\ pc'[p] = "d_tx" => loc'[p].to = FirstWallet(wallets, req'[p].user)
          /\ (pc[p] \in {"t_from", "t_to", "t_tx", "d_tx", "c_insert"} /\ pc'[p] # pc[p]) =>
                /\ <<pc'[p], resp'[p]>> = StepDecision(p)
                /\ pc'[p] = "t_to" => loc'[p].from = FirstWallet(wallets, req[p].user)
                /\ pc'[p] = "t_tx" => loc'[p].to = FirstWallet(wallets, loc[p].toUser)
                /\ pc[p] \in {"t_from", "t_to"} => UNCHANGED <<wallets, txs>>
                /\ pc[p] = "t_tx" =>
                      /\ Len(txs') = Len(txs) + 1
                      /\ \A i \in DOMAIN wallets :
                           wallets'[i].Balance = wallets[i].Balance
                              + (IF i = loc[p].to.ID THEN req[p].amount ELSE 0)
                              - (IF i = loc[p].from.ID THEN req[p].amount ELSE 0)
                /\ pc[p] = "d_tx" =>
                      /\ Len(txs') = Len(txs) + 1
                      /\ \A i \in DOMAIN wallets :
                           wallets'[i].Balance = wallets[i].Balance
                              + (IF i = loc[p].to.ID THEN req[p].amount ELSE 0)
                /\ pc[p] = "c_insert" =>
                      /\ txs' = txs
                      /\ wallets' = IF pc'[p] = "c_del"
                                      THEN Append(wallets, [UserID |-> req[p].user, Balance |-> 0])
                                      ELSE wallets ]_vars

\* a transfer has passed the check of the funds on the sender's balance in
\* the store while the cache holds, for the sender, a balance that does not
\* cover the amount
C22_Witness ==
    \E p \in Procs :
      /\ pc[p] = "t_tx"
      /\ CacheHit(cache, WalletKey(req[p].user))
      /\ UnmarshalWallet(cache[WalletKey(req[p].user)]).Balance < req[p].amount
      /\ loc[p].from.Balance >= req[p].amount

(* C23 *)
\* the answers that ListUsersHandler and ListTransactionsHandler compute from
\* the store as it is now, for a page and a page size
CurrentUsers(page, pageSize) ==
    [users |-> UsersWithWallets(wallets, (page - 1) * pageSize, pageSize),
     page |-> page, page_size |-> pageSize, total |-> Cardinality(Users),
     total_pages |-> TotalPages(Cardinality(Users), pageSize)]

CurrentAllTxs(page, pageSize) ==
    {[transactions |-> rows, page |-> page, page_size |-> pageSize, total |-> Len(txs),
      total_pages |-> TotalPages(Len(txs), pageSize)] :
        rows \in FindAllTx(txs, (page - 1) * pageSize, pageSize)}

\* C23: the cache is invalidated on data changes.  Where the calls on an
\* account do not overlap, every answer served from the cache shows the
\* store as it is: the cached balance is the wallet's balance, the cached
\* listing of users shows every wallet with its balance, and the cached
\* listing of transactions shows the entries of the ledger.
C23_NoStaleCachedAnswer ==
    \A p \in Procs :
      (pc[p] = "done" /\ resp[p].status = 200 /\ resp[p].cached) =>
        /\ req[p].op = "balance" => resp[p].wallet = FirstWallet(wallets, req[p].user)
        /\ req[p].op = "users" =>
              resp[p].users = CurrentUsers(resp[p].users.page, resp[p].users.page_size)
        /\ req[p].op = "alltxs" =>
              resp[p].hist \in CurrentAllTxs(resp[p].hist.page, resp[p].hist.page_size)

(* C24 *)
\* C24: a successful Deposit returns the account's new balance.  Where the
\* calls on an account do not overlap, the answer of a deposit that
\* succeeded carries the depositor's wallet as the store holds it after the
\* commit.
C24_DepositReturnsBalance ==
    \A p \in Procs :
      Succeeded(p, "deposit") =>
        /\ Found(resp[p].wallet)
        /\ resp[p].wallet.Balance = StoreBalance(req[p].user)

(* C25 *)
\* the entries after the first n that moved the balance of wallet id were
\* all committed less than the time-to-live ago
RecentAfter(n, id) ==
    \A i \in (n + 1)..Len(txs) :
      (txs[i].FromWalletID = id \/ txs[i].ToWalletID = id) =>
         now - txs[i].CreatedAt < TTLMillis

\* the answers GetTransactionHistoryHandler computes from the entries ts
AnswersAt(ts, id, page, pageSize) ==
    {[transactions |-> rows, page |-> page, page_size |-> pageSize,
      total |-> CountTx(ts, id), total_pages |-> TotalPages(CountTx(ts, id), pageSize)] :
        rows \in FindTx(ts, id, (page - 1) * pageSize, pageSize)}

\* slot p answers a read with 200 in this step
ServesRead(p) ==
    /\ Acts(p)
    /\ pc'[p] = "done"
    /\ req'[p].op \in {"balance", "history"}
    /\ resp'[p].status = 200

\* C25: staleness is bounded by the time-to-live.  Where the calls on an
\* account do not overlap, every balance and every history page that is
\* served shows the store as it was at some moment such that every mutation
\* of the wallet since then was committed less than TTL ago; an answer read
\* from the store shows the store as it is.
C25_StalenessBoundedByTTL ==
    [][ \A p \in Procs :
          ServesRead(p) =>
            LET w == FirstWallet(wallets, req'[p].user)
                a == resp'[p]
            IN  /\ req'[p].op = "balance" =>
                      /\ a.wallet.ID = w.ID
                      /\ \E n \in 0..Len(txs) :
                            /\ a.wallet.Balance = LedgerBalance(SubSeq(txs, 1, n), w.ID)
                            /\ RecentAfter(n, w.ID)
                      /\ ~a.cached => a.wallet = w
                /\ req'[p].op = "history" =>
                      /\ \E n \in 0..Len(txs) :
                            /\ a.hist \in AnswersAt(SubSeq(txs, 1, n), w.ID,
                                                    a.hist.page, a.hist.page_size)
                            /\ RecentAfter(n, w.ID)
                      /\ ~a.cached => Current(req'[p].user, a.hist) ]_vars

\* a balance that is not the store's is served from the cache after the
\* clock has moved on from the deposit that changed it
C25_Witness ==
    \E p \in Procs :
      /\ Succeeded(p, "balance") /\ resp[p].cached
      /\ resp[p].wallet.Balance # StoreBalance(req[p].user)
      /\ txs # << >> /\ now > txs[Len(txs)].CreatedAt

(* C26 *)
\* the failure of a Transfer request r that comes first in the order:
\* destination resolution, amount, missing account, self-transfer, funds
\* ("none" if the request meets no failure condition)
FirstFailure(r) ==
    LET to == UserByName(r.to)
    IN  IF to = 0 THEN "NotFound"
        ELSE IF r.amount <= 0 THEN "InvalidAmount"
        ELSE IF ~Found(FirstWallet(wallets, r.user)) \/ ~Found(FirstWallet(wallets, to))
          THEN "NotFound"
        ELSE IF to = r.user THEN "SelfTransfer"
        ELSE IF StoreBalance(r.user) < r.amount THEN "InsufficientFunds"
        ELSE "none"

\* the failure that an answer of TransferHandler reports
Reported(a) ==
    CASE a.status = 404 -> "NotFound"
      [] a = InvalidRequest -> "InvalidAmount"
      [] a = SelfTransfer -> "SelfTransfer"
      [] a = InsufficientFunds -> "InsufficientFunds"
      [] a.status = 200 -> "none"
      [] OTHER -> "other"

\* C26: when several failure conditions hold for one Transfer call, the
\* failure reported is the first in the order destination resolution,
\* InvalidAmount, NotFound, SelfTransfer, InsufficientFunds.  Where the
\* calls on an account do not overlap, every answer of a Transfer reports
\* the first failure of its request in that order.
C26_FailureOrder ==
    \A p \in Procs :
      (pc[p] = "done" /\ req[p].op = "transfer" /\ resp[p].status # 200) =>
         Reported(resp[p]) = FirstFailure(req[p])

(* C27 *)
\* the cache holds neither the balance of user u nor one of the first
\* pages of the default size of u's history
NoEntries(u) ==
    /\ ~CacheHit(cache, WalletKey(u))
    /\ \A i \in 1..InvalidatedPages : ~CacheHit(cache, InvalidatedKey(u, i))

\* the store holds the entry of the request of slot p
Committed(p) ==
    \E i \in DOMAIN txs :
      /\ txs[i].Type = req[p].op /\ txs[i].Amount = req[p].amount
      /\ txs[i].ToWalletID = loc[p].to.ID

\* C27: bounded invalidation on commit.  Where the calls on an account do
\* not overlap: when a Deposit has answered success the cache holds no
\* balance and no page 1..5 of the default size for the depositor, when a
\* Transfer has answered success it holds none for the sender and none
\* for the recipient; and a Deposit or Transfer changes the cache only in
\* the steps after its transaction committed, which change no store row.
C27_InvalidationOnCommit ==
    /\ [](\A p \in Procs :
            /\ Succeeded(p, "deposit") => NoEntries(req[p].user)
            /\ Succeeded(p, "transfer") =>
                  NoEntries(req[p].user) /\ NoEntries(UserByName(req[p].to)))
    /\ [][ \A p \in Procs :
             (Acts(p) /\ req'[p].op \in {"deposit", "transfer"} /\ cache' # cache) =>
                /\ pc[p] \in {"t_del_from", "t_del_to", "t_del_tx", "d_del", "d_del_tx"}
                /\ Committed(p)
                /\ UNCHANGED <<wallets, txs>> ]_vars

\* a transfer has committed and deleted the sender's balance while the
\* cache still holds the recipient's balance from before the commit
C27_Witness ==
    \E p \in Procs :
      /\ pc[p] = "t_del_to"
      /\ CacheHit(cache, WalletKey(loc[p].toUser))
      /\ UnmarshalWallet(cache[WalletKey(loc[p].toUser)]).Balance # StoreBalance(loc[p].toUser)

(* C28 *)
\* the wallet of user u in the store
WalletOf(u) == FirstWallet(wallets, u).ID

\* the entry that the step has appended, if it has appended one
NewEntry == txs'[Len(txs')]

\* the balance of wallet id has grown by d in the step
Moved(id, d) == wallets'[id].Balance = wallets[id].Balance + d

\* C28: the entry written by an operation describes that operation.  In
\* every interleaving, the step that commits a Deposit of x by user A
\* appends exactly one entry, of kind deposit with no source, A's wallet as
\* destination and amount x, and adds x to A's balance; the step that
\* commits a Transfer of y from A to B appends exactly one entry, of kind
\* transfer with A's wallet as source, B's wallet as destination and amount
\* y, takes y from A's balance and adds y to B's.
C28_EntryDescribesOperation ==
    [][ \A p \in Procs :
          /\ (pc[p] = "d_tx" /\ pc'[p] = "d_del") =>
                /\ txs' = Append(txs, NewEntry)
                /\ NewEntry.Type = "deposit"
                /\ NewEntry.FromWalletID = Nil
                /\ NewEntry.ToWalletID = WalletOf(req[p].user)
                /\ NewEntry.Amount = req[p].amount
                /\ Moved(WalletOf(req[p].user), req[p].amount)
          /\ (pc[p] = "t_tx" /\ pc'[p] = "t_del_from") =>
                /\ txs' = Append(txs, NewEntry)
                /\ NewEntry.Type = "transfer"
                /\ NewEntry.FromWalletID = WalletOf(req[p].user)
                /\ NewEntry.ToWalletID = WalletOf(UserByName(req[p].to))
                /\ NewEntry.Amount = req[p].amount
                /\ Moved(WalletOf(req[p].user), 0 - NewEntry.Amount)
                /\ Moved(WalletOf(UserByName(req[p].to)), NewEntry.Amount) ]_vars

\* a transfer has answered success and the ledger holds its entry after the
\* entry of the deposit that funded it
C28_Witness ==
    \E p \in Procs :
      /\ Succeeded(p, "transfer")
      /\ Len(txs) = 2
      /\ txs[1].Type = "deposit" /\ txs[1].ToWalletID = WalletOf(req[p].user)
      /\ txs[2].Type = "transfer" /\ txs[2].FromWalletID = WalletOf(req[p].user)
      /\ txs[2].ToWalletID = WalletOf(UserByName(req[p].to))
      /\ txs[2].Amount = req[p].amount

(* C29 *)
\* the row is a well-formed Transaction Entry of the store
WellFormed(t) ==
    /\ t.Amount > 0
    /\ t.Type \in {"deposit", "transfer"}
    /\ t.ToWalletID \in DOMAIN wallets
    /\ t.Type = "deposit" => t.FromWalletID = Nil
    /\ t.Type = "transfer" =>
          /\ t.FromWalletID \in DOMAIN wallets
          /\ t.FromWalletID # t.ToWalletID
          /\ wallets[t.FromWalletID].UserID # wallets[t.ToWalletID].UserID

\* C29: every Transaction Entry in every reachable state is well formed:
\* its amount is strictly positive, its kind is deposit or transfer, a
\* deposit has a destination that is a wallet of the store and no source,
\* and a transfer has a source and a destination that are wallets of the
\* store, distinct and of distinct users.
C29_EntriesWellFormed == \A i \in DOMAIN txs : txs[i].ID = i /\ WellFormed(txs[i])

\* the ledger holds a deposit and a transfer
C29_Witness ==
    \E i, j \in DOMAIN txs : txs[i].Type = "deposit" /\ txs[j].Type = "transfer"

(* C30 *)
\* C30: Transaction Entries are append-only.  In every step of every
\* handler (CreateWallet, Deposit, Transfer, GetWallet,
\* GetTransactionHistory) and of the cache, the entries that exist stay in
\* place with every field unchanged; the ledger changes only by growing at
\* its end.
C30_AppendOnly ==
    [][ /\ Len(txs') >= Len(txs)
        /\ \A i \in DOMAIN txs : txs'[i] = txs[i] ]_vars

\* the history has been read from a ledger that holds the entries of two
\* earlier calls
C30_Witness ==
    /\ Len(txs) >= 2
    /\ \E p \in Procs : Succeeded(p, "history") /\ resp[p].hist.total >= 1

(* C34 *)
\* the sum of the amounts of the entries of ts with the IDs ids
RECURSIVE Total(_, _)
Total(ts, ids) ==
    IF ids = {} THEN 0
    ELSE LET i == CHOOSE k \in ids : TRUE
         IN  ts[i].Amount + Total(ts, ids \ {i})

\* C34: the ledger equation.  In every state of the store, in every
\* interleaving of CreateWallet, Deposit, Transfer and GetWallet calls, the
\* balance of each wallet is the sum of the amounts of the entries whose
\* destination it is, less the sum of the amounts of the entries whose
\* source it is; and the sum of all balances is the sum of the amounts of
\* the deposit entries.
C34_LedgerEquation ==
    /\ \A i \in DOMAIN wallets :
         wallets[i].Balance = Total(txs, {k \in DOMAIN txs : txs[k].ToWalletID = i})
                                - Total(txs, {k \in DOMAIN txs : txs[k].FromWalletID = i})
    /\ SumBalances(wallets) = Total(txs, {k \in DOMAIN txs : txs[k].Type = "deposit"})

\* a transfer has committed into a wallet that a CreateWallet call of this
\* run has inserted
C34_Witness ==
    \E p, q \in Procs :
      /\ pc[p] = "done" /\ req[p].op = "create" /\ resp[p].status = 201
      /\ pc[q] = "t_del_from" /\ loc[q].toUser = req[p].user
      /\ StoreBalance(req[p].user) = req[q].amount

(* C33 *)
\* C33: GetBalance for a user with no account fails with NotFound and
\* writes nothing to the cache.  Where the calls on an account do not
\* overlap: the cache holds a balance only for users who have a wallet, and
\* it is that wallet; a GetBalance call answers NotFound exactly when the
\* user has no wallet, and otherwise answers the wallet of the store (the
\* new one, with balance zero, after a CreateAccount); and the step that
\* answers NotFound changes neither the cache nor the store.
C33_AbsenceNotCached ==
    /\ [](\A u \in Users :
            CacheHit(cache, WalletKey(u)) =>
               UnmarshalWallet(cache[WalletKey(u)]).ID = FirstWallet(wallets, u).ID
                 /\ Found(FirstWallet(wallets, u)))
    /\ [](\A p \in Procs :
            (pc[p] = "done" /\ req[p].op = "balance") =>
               IF Found(FirstWallet(wallets, req[p].user))
                 THEN resp[p].status = 200
                        /\ resp[p].wallet = FirstWallet(wallets, req[p].user)
                 ELSE resp[p] = WalletNotFound)
    /\ [][ \A p \in Procs :
             (pc[p] = "g_db" /\ pc'[p] = "done") =>
                /\ resp'[p] = WalletNotFound
                /\ UNCHANGED <<wallets, txs, cache>> ]_vars

\* the third call of a run that started without wallets is a GetBalance
\* that answers, from the store, the wallet a CreateAccount call inserted
C33_Witness ==
    \E p \in Procs :
      /\ calls = 3 /\ Len(wallets) = 1 /\ wallets[1].UserID = 1
      /\ Succeeded(p, "balance") /\ req[p].user = 1 /\ ~resp[p].cached
      /\ resp[p].wallet = [ID |-> 1, UserID |-> 1, Balance |-> 0]

(* C31 *)
\* the balance wallet id had before the transfers of DisjointSpec: what its
\* deposits brought
Before(id) == Total(txs, {k \in DOMAIN txs : txs[k].Type = "deposit" /\ txs[k].ToWalletID = id})

\* what Transfer request r answers and moves when it runs alone on the
\* store as it was before the transfers
Alone(r) ==
    LET ok == r.amount > 0 /\ Before(WalletOf(r.user)) >= r.amount
    IN  [answer |-> IF r.amount <= 0 THEN InvalidRequest
                    ELSE IF ok THEN TransferOK ELSE InsufficientFunds,
         moved |-> IF ok THEN r.amount ELSE 0]

\* the entries of the ledger that record a transfer as request r asks it
Recorded(r) ==
    {k \in DOMAIN txs :
       /\ txs[k].Type = "transfer" /\ txs[k].Amount = r.amount
       /\ txs[k].FromWalletID = WalletOf(r.user)
       /\ txs[k].ToWalletID = WalletOf(UserByName(r.to))}

\* the two calls made so far overlapped, were of the two pairs, and have
\* both answered
BothAnswered ==
    /\ calls = 2
    /\ \A p \in Procs : pc[p] = "done"
    /\ \E p, q \in Procs : req[p].user # req[q].user

\* C31: transfers between disjoint account pairs commute.  In every
\* interleaving of a transfer from alice to bob with a transfer from carol
\* to dave: what a call has read of its own accounts is what the store
\* holds while the call runs; the commit of a call moves its amount from
\* its sender to its recipient and changes no other wallet; and when both
\* calls have answered, each has the answer it gives when run alone, the
\* four balances are those of running the two calls one after the other,
\* and the ledger holds one entry for each call that succeeded and no
\* other transfer.
C31_DisjointTransfersCommute ==
    /\ [](\A p \in Procs :
            /\ pc[p] \in {"t_to", "t_tx"} => loc[p].from = FirstWallet(wallets, req[p].user)
            /\ pc[p] = "t_tx" => loc[p].to = FirstWallet(wallets, loc[p].toUser))
    /\ [][ \A p \in Procs :
             (pc[p] = "t_tx" /\ pc'[p] # pc[p]) =>
                \A i \in DOMAIN wallets :
                   wallets'[i].Balance = wallets[i].Balance
                      + (IF i = WalletOf(UserByName(req[p].to)) THEN req[p].amount ELSE 0)
                      - (IF i = WalletOf(req[p].user) THEN req[p].amount ELSE 0) ]_vars
    /\ [](BothAnswered =>
            /\ \A p \in Procs :
                  /\ resp[p] = Alone(req[p]).answer
                  /\ StoreBalance(req[p].user) =
                        Before(WalletOf(req[p].user)) - Alone(req[p]).moved
                  /\ StoreBalance(UserByName(req[p].to)) =
                        Before(WalletOf(UserByName(req[p].to))) + Alone(req[p]).moved
                  /\ Cardinality(Recorded(req[p])) = IF Alone(req[p]).moved > 0 THEN 1 ELSE 0
            /\ \A k \in DOMAIN txs :
                  txs[k].Type = "transfer" => \E p \in Procs : k \in Recorded(req[p]))

\* the two transfers overlapped and have both succeeded
C31_Witness ==
    /\ BothAnswered
    /\ \A p \in Procs : resp[p] = TransferOK

(* C35 *)
\* the cache keys of user u that the handlers of the model write
KeysOf(u) == {WalletKey(u)} \cup {TxKey(u, page, size) : page \in 1..6, size \in {1, DefaultPageSize}}

\* the step leaves the wallet, the entries and the cache keys of user u as
\* they are
Untouched(u) ==
    /\ FirstWallet(wallets', u) = FirstWallet(wallets, u)
    /\ \A k \in DOMAIN txs' :
         (txs'[k].FromWalletID = FirstWallet(wallets, u).ID
            \/ txs'[k].ToWalletID = FirstWallet(wallets, u).ID)
           => k \in DOMAIN txs /\ txs[k] = txs'[k]
    /\ \A k \in EntriesOf(u) : k \in DOMAIN txs' /\ txs'[k] = txs[k]
    /\ \A key \in KeysOf(u) :
         /\ CacheHit(cache', key) <=> CacheHit(cache, key)
         /\ CacheHit(cache, key) => cache'[key] = cache[key]

\* C35: frame.  In every interleaving, every step of a Deposit leaves the
\* balance, the entries, the cached balance and the cached history pages
\* of every user but the depositor unchanged, every step of a Transfer
\* those of every user but its sender and its recipient, and every step
\* of GetBalance and GetHistory leaves the store unchanged.
C35_Frame ==
    [][ \A p \in Procs :
          Acts(p) =>
            /\ req'[p].op \in {"deposit", "transfer"} =>
                  \A u \in FourUsers \ Named(req'[p]) : Untouched(u)
            /\ req'[p].op \in {"balance", "history"} => UNCHANGED <<wallets, txs>> ]_vars

\* a transfer from alice to bob has answered success while the cache
\* holds carol's balance and the first page of her history
C35_Witness ==
    \E p \in Procs :
      /\ Succeeded(p, "transfer")
      /\ CacheHit(cache, WalletKey(4))
      /\ CacheHit(cache, TxKey(4, 1, DefaultPageSize))

(* C32 *)
\* the pages of a ledger that holds entries of several accounts: alice
\* deposits and transfers to bob, carol deposits, and alice asks for the
\* pages 1, 2 and 6 of her history with the page sizes 20 and 1, while the
\* clock runs
OffsetNext ==
    \/ \E p \in Procs :
         \/ TransferStartFrom(p, TRUE, {1}, {"bob"}) \/ TransferStep(p)
         \/ DepositStartFrom(p, TRUE, {1, 4}) \/ DepositStep(p)
         \/ HistoryStartOf(p, TRUE, {1}, {"", "2", "6"}, {"", "1"}) \/ HistoryStep(p)
    \/ Expire
    \/ Tick

OffsetSpec == InitDisjoint /\ [][OffsetNext]_vars

\* the entries of the set ids that are newer than entry e, and those that
\* are at least as new
Newer(ids, e) == {i \in ids : txs[i].CreatedAt > e.CreatedAt}

NotOlder(ids, e) == {i \in ids : txs[i].CreatedAt >= e.CreatedAt}

\* rows is the part of the entries ids, ordered by descending creation
\* time, that starts after offset entries and is at most limit long
PageAt(rows, ids, offset, limit) ==
    LET rest == IF Cardinality(ids) > offset THEN Cardinality(ids) - offset ELSE 0
    IN  /\ Len(rows) = (IF rest < limit THEN rest ELSE limit)
        /\ \A k \in DOMAIN rows :
              /\ \E i \in ids : rows[k] = txs[i]
              /\ \A j \in DOMAIN rows : j < k =>
                     /\ rows[j].ID # rows[k].ID
                     /\ rows[j].CreatedAt >= rows[k].CreatedAt
              /\ Cardinality(Newer(ids, rows[k])) <= offset + k - 1
              /\ Cardinality(NotOlder(ids, rows[k])) >= offset + k

\* the handler of slot p answers a history request from the store
AnswersHistory(p) ==
    /\ pc[p] = "h_set" /\ pc'[p] = "done"
    /\ resp'[p].status = 200 /\ ~resp'[p].cached

\* C32: on a cache miss GetHistory(A, page, pageSize) returns exactly the
\* entries whose source or destination is A's account that lie, in
\* descending order of creation time, at offset (page - 1) * pageSize, at
\* most pageSize of them; no entry that does not involve A's account
\* appears, and a page past the end is empty.
C32_PageOfOwnEntries ==
    [][ \A p \in Procs :
          AnswersHistory(p) =>
            LET h == resp'[p].hist
                own == EntriesOf(req[p].user)
                offset == (EffectivePage(req[p].page) - 1) * EffectivePageSize(req[p].size)
            IN  /\ PageAt(h.transactions, own, offset, EffectivePageSize(req[p].size))
                /\ \A k \in DOMAIN h.transactions :
                      WalletOf(req[p].user) \in
                        {h.transactions[k].FromWalletID, h.transactions[k].ToWalletID}
                /\ offset >= Cardinality(own) => h.transactions = << >> ]_vars

\* alice's second page of size 1 has been read from the store and holds
\* one of her two entries, while the ledger holds an entry of carol; and
\* alice's sixth page
C32_Witness ==
    \E p \in Procs :
      /\ Succeeded(p, "history") /\ ~resp[p].cached
      /\ req[p].user = 1 /\ req[p].page = "2" /\ req[p].size = "1"
      /\ Len(resp[p].hist.transactions) = 1
      /\ Cardinality(EntriesOf(1)) = 2
      /\ \E i \in DOMAIN txs : i \notin EntriesOf(1)

====
